---- MODULE Spec2Model ----
(***************************************************************************)
(* Reservation board of the hotel backend (board/entities.py,              *)
(* board/implementation/_reservations_repo.py, board/usecases/*.py).       *)
(*                                                                         *)
(* The database holds one reservation (id 1) with its room rows and day    *)
(* rows.  Entities are the in-memory aggregates of board/entities.py, rows *)
(* are the ORM models of board/models.  Dates are day numbers, money is an *)
(* integer amount, a missing value (None) is Null.  Timestamps are values  *)
(* of the logical clock `now`.                                             *)
(***************************************************************************)
EXTENDS Integers, Sequences, FiniteSets, TLC

VARIABLES db, pre, last, now, calc

vars == <<db, pre, last, now, calc>>

----------------------------------------------------------------------------
(* Bounds of the model *)

\* dates are 1 .. MaxDay, a checkout may be MaxDay + 1
MaxDay == 2
\* day prices of a snapshot or a price form are 100 * (1 .. MaxPrice)
MaxPrice == 2
\* number of operations of one behaviour
MaxSteps == 4
\* the largest free-rooms threshold of an availability discount and the largest
\* inventory of a day
MaxFree == 2
\* the largest occupancy of a rate and the largest number of guests
MaxOcc == 3

----------------------------------------------------------------------------
(* Values *)

Null == 0
\* a missing string (None)
NoStr == ""
\* None where 0 is a value: a price or an inventory that is absent
Absent == -1
NoRes == [id |-> Null]

Dates == 1 .. MaxDay
Stays == {st \in Dates \X (1 .. MaxDay + 1) : st[1] < st[2]}
DayPrices == {100 * k : k \in 1 .. MaxPrice}
ExtIdLists == {<<"A">>, <<"A", "B">>, <<"B">>}
ChannelRates == {"r1", "r2"}
RatePlans == {1, 2}
Variants == {1, 2}
OtaStatuses == {"NEW", "MODIFY", "CANCEL"}

\* the house of the reservation: houses.entities.House (id, tax percent), its
\* rooms (id -> room type id) and its room types
House == [id |-> 1, tax |-> 10, currency |-> "EUR"]
HouseRooms == [r \in {1, 2} |-> IF r = 1 THEN 1 ELSE 2]
HouseRoomTypes == {1, 2}

Range(s) == {s[i] : i \in DOMAIN s}

RECURSIVE SumSeq(_)
SumSeq(s) == IF s = <<>> THEN 0 ELSE Head(s) + SumSeq(Tail(s))

\* [x.f for x in s]
Col(s, f) == [i \in DOMAIN s |-> s[i][f]]

Min(S) == CHOOSE x \in S : \A y \in S : x <= y
Max(S) == CHOOSE x \in S : \A y \in S : x >= y

\* cf.get_days_for_period(start, end, exclude)
get_days_for_period(start_date, end_date, exclude) ==
    LET e == IF exclude THEN end_date - 1 ELSE end_date
    IN  [i \in 1 .. (IF e >= start_date THEN e - start_date + 1 ELSE 0) |-> start_date + i - 1]

\* {key(x): x for x in s}[k]: a later element of the list replaces an earlier one
LastWith(s, f, k) == s[Max({i \in DOMAIN s : s[i][f] = k})]
HasWith(s, f, k) == \E i \in DOMAIN s : s[i][f] = k

----------------------------------------------------------------------------
(* OTA snapshots (channels.ota.schemas.OtaReservation): the input of a merge *)

\* a snapshot is built from a few parameters: the status, the stay, the rooms
\* (by external id), the channel rate, the rate plan, the price of a night and
\* a variant of the remaining fields (guest, policy, tax)
SnapParams == [status : OtaStatuses, stay : Stays, exts : ExtIdLists, rate : ChannelRates,
               plan : RatePlans, dprice : DayPrices, variant : Variants]

OtaDay(p, d) ==
    [day |-> d, price |-> p.dprice, tax |-> p.variant, currency |-> "EUR", roomtype_id |-> 1]

OtaRoom(p, ext) ==
    LET nights == p.stay[2] - p.stay[1]
    IN  [external_id |-> ext, channel_rate_id |-> p.rate, rate_plan_id |-> p.plan,
         policy |-> p.variant, checkin |-> p.stay[1], checkout |-> p.stay[2],
         guest_name |-> IF p.variant = 1 THEN "John" ELSE "Jane",
         price |-> nights * (p.dprice + p.variant), netto_price |-> nights * p.dprice,
         tax |-> nights * p.variant,
         day_prices |-> [i \in 1 .. nights |-> OtaDay(p, p.stay[1] + i - 1)]]

OtaReservation(p) ==
    LET rooms == [i \in DOMAIN p.exts |-> OtaRoom(p, p.exts[i])]
    IN  [status |-> p.status, checkin |-> p.stay[1], checkout |-> p.stay[2],
         price |-> SumSeq(Col(rooms, "price")), netto_price |-> SumSeq(Col(rooms, "netto_price")),
         tax |-> SumSeq(Col(rooms, "tax")),
         guest_name |-> IF p.variant = 1 THEN "John" ELSE "Jane",
         rooms |-> rooms]

BaseParams == [status |-> "NEW", stay |-> <<1, 2>>, exts |-> <<"A", "B">>, rate |-> "r1",
               plan |-> 1, dprice |-> 100, variant |-> 1]

\* the snapshots an OTA sends: the first one, every snapshot that differs
\* from it in one parameter, and a cancellation that names one room only
Snapshots ==
    {OtaReservation(p) : p \in
        {[BaseParams EXCEPT !.status = "CANCEL", !.exts = <<"A">>]} \cup
        {[BaseParams EXCEPT !.status = x] : x \in OtaStatuses}
        \cup {[BaseParams EXCEPT !.stay = x] : x \in Stays}
        \cup {[BaseParams EXCEPT !.exts = x] : x \in ExtIdLists}
        \cup {[BaseParams EXCEPT !.rate = x] : x \in ChannelRates}
        \cup {[BaseParams EXCEPT !.plan = x] : x \in RatePlans}
        \cup {[BaseParams EXCEPT !.dprice = x] : x \in DayPrices}
        \cup {[BaseParams EXCEPT !.variant = x] : x \in Variants}}

----------------------------------------------------------------------------
(* Entities: board/entities.py *)

\* ReservationDay.load
ReservationDay_load(room_id, data) ==
    [id |-> Null, reservation_room_id |-> room_id, day |-> data.day,
     roomtype_id |-> data.roomtype_id, room_id |-> Null,
     price_changed |-> data.price, price_accepted |-> 0, tax |-> data.tax,
     currency |-> data.currency, price_original |-> 0]

\* ReservationDay.update that compares the snapshot's price with the accepted
\* price instead of the proposed one
ReservationDay_update_against_accepted(self, data) ==
    [entity |-> [self EXCEPT !.price_changed = data.price, !.day = data.day,
                             !.tax = data.tax, !.currency = data.currency],
     changed |-> self.price_accepted # data.price]

\* ReservationDay.update: the entity after the update and the returned flag
ReservationDay_update(self, data) ==
    [entity |-> [self EXCEPT !.price_changed = data.price, !.day = data.day,
                             !.tax = data.tax, !.currency = data.currency],
     changed |-> self.price_changed # data.price]

\* ReservationRoom.load
ReservationRoom_load(reservation_id, data) ==
    [id |-> Null, reservation_id |-> reservation_id,
     channel_rate_id |-> data.channel_rate_id, rate_plan_id |-> data.rate_plan_id,
     policy |-> data.policy, checkin |-> data.checkin, checkout |-> data.checkout,
     external_id |-> data.external_id, guest_name |-> data.guest_name,
     price |-> data.price, price_accepted |-> 0,
     netto_price |-> data.netto_price, netto_price_accepted |-> 0,
     tax |-> data.tax, notes_info |-> "",
     day_prices |-> [i \in DOMAIN data.day_prices |-> ReservationDay_load(Null, data.day_prices[i])],
     checkin_original |-> Null, checkout_original |-> Null,
     rate_plan_id_original |-> Null, policy_original |-> Null,
     is_deleted |-> FALSE, deleted_at |-> Null]

\* the merge of one snapshot day into the day list of a room (loop body of
\* ReservationRoom.update)
MergeDay(self, price_data) ==
    IF HasWith(self.day_prices, "day", price_data.day)
    THEN ReservationDay_update(LastWith(self.day_prices, "day", price_data.day), price_data)
    ELSE [entity |-> ReservationDay_load(self.id, price_data), changed |-> TRUE]

\* ReservationRoom.update that also reports a snapshot price that differs from
\* the accepted price of the room
ReservationRoom_update_against_accepted(self, data) ==
    LET merged == [i \in DOMAIN data.day_prices |-> MergeDay(self, data.day_prices[i])]
    IN  [entity |-> [self EXCEPT !.checkin = data.checkin, !.checkout = data.checkout,
                                 !.channel_rate_id = data.channel_rate_id,
                                 !.rate_plan_id = data.rate_plan_id, !.policy = data.policy,
                                 !.guest_name = data.guest_name, !.price = data.price,
                                 !.tax = data.tax, !.netto_price = data.netto_price,
                                 !.day_prices = Col(merged, "entity")],
         changed |-> \/ self.checkin # data.checkin
                     \/ self.checkout # data.checkout
                     \/ self.channel_rate_id # data.channel_rate_id
                     \/ self.price_accepted # data.price
                     \/ \E i \in DOMAIN merged : merged[i].changed]

\* ReservationRoom.update
ReservationRoom_update(self, data) ==
    LET merged == [i \in DOMAIN data.day_prices |-> MergeDay(self, data.day_prices[i])]
    IN  [entity |-> [self EXCEPT !.checkin = data.checkin, !.checkout = data.checkout,
                                 !.channel_rate_id = data.channel_rate_id,
                                 !.rate_plan_id = data.rate_plan_id, !.policy = data.policy,
                                 !.guest_name = data.guest_name, !.price = data.price,
                                 !.tax = data.tax, !.netto_price = data.netto_price,
                                 !.day_prices = Col(merged, "entity")],
         changed |-> \/ self.checkin # data.checkin
                     \/ self.checkout # data.checkout
                     \/ self.channel_rate_id # data.channel_rate_id
                     \/ \E i \in DOMAIN merged : merged[i].changed]

\* the merge of one snapshot room into the room list (loop body of
\* Reservation.update)
MergeRoom(self, room_data) ==
    IF HasWith(self.rooms, "external_id", room_data.external_id)
    THEN ReservationRoom_update(LastWith(self.rooms, "external_id", room_data.external_id), room_data)
    ELSE [entity |-> ReservationRoom_load(self.id, room_data), changed |-> TRUE]

\* Reservation.update that also reports a change of the status
Reservation_update_reporting_status(self, data) ==
    LET merged == [i \in DOMAIN data.rooms |-> MergeRoom(self, data.rooms[i])]
    IN  [entity |-> [self EXCEPT !.checkin = data.checkin, !.checkout = data.checkout,
                                 !.status = data.status, !.price = data.price,
                                 !.tax = data.tax, !.netto_price = data.netto_price,
                                 !.guest_name = data.guest_name,
                                 !.rooms = Col(merged, "entity")],
         changed |-> \/ self.checkin # data.checkin
                     \/ self.checkout # data.checkout
                     \/ self.status # data.status
                     \/ \E i \in DOMAIN merged : merged[i].changed]

\* Reservation.update
Reservation_update(self, data) ==
    LET merged == [i \in DOMAIN data.rooms |-> MergeRoom(self, data.rooms[i])]
    IN  [entity |-> [self EXCEPT !.checkin = data.checkin, !.checkout = data.checkout,
                                 !.status = data.status, !.price = data.price,
                                 !.tax = data.tax, !.netto_price = data.netto_price,
                                 !.guest_name = data.guest_name,
                                 !.rooms = Col(merged, "entity")],
         changed |-> \/ self.checkin # data.checkin
                     \/ self.checkout # data.checkout
                     \/ \E i \in DOMAIN merged : merged[i].changed]

\* Reservation.load (the connection is a Booking.com connection of the house)
Reservation_load(data) ==
    [id |-> Null, house_id |-> House.id, source |-> "BOOKING", status |-> data.status,
     close_reason |-> NoStr, checkin |-> data.checkin, checkout |-> data.checkout,
     price |-> data.price, price_accepted |-> 0,
     netto_price |-> data.netto_price, netto_price_accepted |-> 0,
     tax |-> data.tax, guest_name |-> data.guest_name,
     is_verified |-> FALSE, verified_at |-> Null,
     rooms |-> [i \in DOMAIN data.rooms |-> ReservationRoom_load(Null, data.rooms[i])]]

\* Reservation.allow_update_prices
allow_update_prices(self) == self.status \notin {"CANCEL", "CLOSE"}

\* Reservation.is_ota
is_ota(self) == self.source # "MANUAL"

\* ReservationRoom.get_nights
get_nights(self) == self.checkout - self.checkin

----------------------------------------------------------------------------
(* The repository: board/implementation/_reservations_repo.py.  An operation *)
(* takes the database d and returns the database after it.                  *)

EmptyDb == [res |-> NoRes, rooms |-> <<>>, days |-> {}, day_seq |-> 0]

\* the day rows of a room row in the order of ReservationDay.Meta.ordering
RECURSIVE SortByDay(_)
SortByDay(S) ==
    IF S = {} THEN <<>>
    ELSE LET m == CHOOSE x \in S : \A y \in S :
                      x.day < y.day \/ (x.day = y.day /\ x.id <= y.id)
         IN  <<m>> \o SortByDay(S \ {m})

\* room_model.day_prices.all()
day_prices_of(d, room_pk) == SortByDay({x \in d.days : x.reservation_room_id = room_pk})

\* ReservationRoomQuerySet.active, as the ids of the rows in id order
ActiveRoomIds(d) == {i \in DOMAIN d.rooms : ~d.rooms[i].is_deleted}

RECURSIVE SeqOfSet(_)
SeqOfSet(S) == IF S = {} THEN <<>> ELSE <<Min(S)>> \o SeqOfSet(S \ {Min(S)})

\* ReservationsRepoOrm.model_to_reservation_day
model_to_reservation_day(model) ==
    [id |-> model.id, reservation_room_id |-> model.reservation_room_id, day |-> model.day,
     roomtype_id |-> model.roomtype_id, room_id |-> model.room_id,
     price_changed |-> model.price_changed, price_accepted |-> model.price_accepted,
     tax |-> model.tax, currency |-> model.currency, price_original |-> model.price_original]

\* ReservationsRepoOrm.model_to_reservation_room
model_to_reservation_room(d, model) ==
    LET prices == day_prices_of(d, model.id)
    IN  [id |-> model.id, reservation_id |-> model.reservation_id,
         channel_rate_id |-> model.channel_rate_id, rate_plan_id |-> model.rate_plan_id,
         policy |-> model.policy, checkin |-> model.checkin, checkout |-> model.checkout,
         external_id |-> model.external_id, guest_name |-> model.guest_name,
         price |-> model.price, price_accepted |-> model.price_accepted,
         netto_price |-> model.netto_price, netto_price_accepted |-> model.netto_price_accepted,
         tax |-> model.tax, notes_info |-> model.notes_info,
         day_prices |-> [i \in DOMAIN prices |-> model_to_reservation_day(prices[i])],
         checkin_original |-> model.checkin_original, checkout_original |-> model.checkout_original,
         rate_plan_id_original |-> model.rate_plan_id_original,
         policy_original |-> model.policy_original,
         is_deleted |-> model.is_deleted, deleted_at |-> model.deleted_at]

\* ReservationsRepoOrm.model_to_reservation (verified_at is not read back)
model_to_reservation(d, with_deleted_rooms) ==
    LET model == d.res
        ids == SeqOfSet(IF with_deleted_rooms THEN DOMAIN d.rooms ELSE ActiveRoomIds(d))
    IN  [id |-> model.id, house_id |-> model.house_id, source |-> model.source,
         status |-> model.status, close_reason |-> model.close_reason,
         checkin |-> model.checkin, checkout |-> model.checkout,
         price |-> model.price, price_accepted |-> model.price_accepted,
         netto_price |-> model.netto_price, netto_price_accepted |-> model.netto_price_accepted,
         tax |-> model.tax, guest_name |-> model.guest_name,
         is_verified |-> model.is_verified, verified_at |-> Null,
         rooms |-> [i \in DOMAIN ids |-> model_to_reservation_room(d, d.rooms[ids[i]])]]

\* ReservationsRepoOrm.get for the stored reservation
get(d) == model_to_reservation(d, FALSE)

\* ReservationsRepoOrm._create_reservation_day
create_reservation_day(d, room_pk, data) ==
    [d EXCEPT !.day_seq = @ + 1,
              !.days = @ \cup {[id |-> d.day_seq + 1, reservation_room_id |-> room_pk,
                                day |-> data.day, price_original |-> data.price_changed,
                                price_changed |-> data.price_changed,
                                price_accepted |-> data.price_changed, tax |-> data.tax,
                                currency |-> data.currency, roomtype_id |-> data.roomtype_id,
                                room_id |-> data.room_id]}]

RECURSIVE CreateDays(_, _, _)
CreateDays(d, room_pk, prices) ==
    IF prices = <<>> THEN d
    ELSE CreateDays(create_reservation_day(d, room_pk, Head(prices)), room_pk, Tail(prices))

\* ReservationsRepoOrm._create_reservation_room
create_reservation_room(d, room) ==
    LET pk == Len(d.rooms) + 1
        row == [id |-> pk, reservation_id |-> d.res.id,
                channel_rate_id |-> room.channel_rate_id,
                channel_rate_id_changed |-> room.channel_rate_id,
                rate_plan_id |-> room.rate_plan_id, rate_plan_id_original |-> room.rate_plan_id,
                external_id |-> room.external_id,
                checkin |-> room.checkin, checkin_original |-> room.checkin,
                checkout |-> room.checkout, checkout_original |-> room.checkout,
                guest_name |-> room.guest_name,
                price |-> room.price, price_accepted |-> room.price, tax |-> room.tax,
                netto_price |-> room.netto_price, netto_price_accepted |-> room.netto_price,
                notes_info |-> room.notes_info,
                policy |-> room.policy, policy_original |-> room.policy,
                is_deleted |-> FALSE, deleted_at |-> Null]
    IN  CreateDays([d EXCEPT !.rooms = Append(@, row)], pk, room.day_prices)

RECURSIVE CreateRooms(_, _)
CreateRooms(d, rooms) ==
    IF rooms = <<>> THEN d
    ELSE CreateRooms(create_reservation_room(d, Head(rooms)), Tail(rooms))

\* ReservationsRepoOrm._create_reservation
create_reservation(d, reservation) ==
    LET row == [id |-> 1, house_id |-> reservation.house_id, source |-> reservation.source,
                status |-> reservation.status, close_reason |-> reservation.close_reason,
                checkin |-> reservation.checkin, checkin_original |-> reservation.checkin,
                checkout |-> reservation.checkout, checkout_original |-> reservation.checkout,
                price |-> reservation.price, price_accepted |-> reservation.price,
                tax |-> reservation.tax,
                netto_price |-> reservation.netto_price,
                netto_price_accepted |-> reservation.netto_price,
                guest_name |-> reservation.guest_name,
                is_verified |-> FALSE, verified_at |-> Null]
    IN  [db |-> CreateRooms([d EXCEPT !.res = row], reservation.rooms), changed |-> TRUE]

\* ReservationsRepoOrm._cancel_reservation
cancel_reservation(d, reservation) ==
    LET row == [d.res EXCEPT !.status = reservation.status,
                             !.is_verified = reservation.is_verified]
    IN  [db |-> [d EXCEPT !.res = row], changed |-> row # d.res]

\* _update_reservation_day that moves price_original with the accepted price
update_reservation_day_rebasing(d, room_pk, data, with_accepted_prices) ==
    LET found == {x \in d.days : x.reservation_room_id = room_pk /\ x.day = data.day}
        day_model == SortByDay(found)[1]
        common == [day_model EXCEPT !.tax = data.tax, !.currency = data.currency,
                                    !.roomtype_id = data.roomtype_id, !.room_id = data.room_id]
        row == IF with_accepted_prices
               THEN [common EXCEPT !.price_accepted = data.price_accepted,
                                   !.price_original = data.price_accepted]
               ELSE [common EXCEPT !.price_changed = data.price_changed]
    IN  IF found = {} THEN [db |-> d, changed |-> FALSE]
        ELSE [db |-> [d EXCEPT !.days = (@ \ {day_model}) \cup {row}],
              changed |-> row # day_model]

\* ReservationsRepoOrm._update_reservation_day
update_reservation_day(d, room_pk, data, with_accepted_prices) ==
    LET found == {x \in d.days : x.reservation_room_id = room_pk /\ x.day = data.day}
        day_model == SortByDay(found)[1]
        common == [day_model EXCEPT !.tax = data.tax, !.currency = data.currency,
                                    !.roomtype_id = data.roomtype_id, !.room_id = data.room_id]
        row == IF with_accepted_prices
               THEN [common EXCEPT !.price_accepted = data.price_accepted]
               ELSE [common EXCEPT !.price_changed = data.price_changed]
    IN  IF found = {} THEN [db |-> d, changed |-> FALSE]
        ELSE [db |-> [d EXCEPT !.days = (@ \ {day_model}) \cup {row}],
              changed |-> row # day_model]

\* ReservationsRepoOrm._delete_reservation_day
delete_reservation_day(d, room_pk, day) ==
    LET found == {x \in d.days : x.reservation_room_id = room_pk /\ x.day = day}
    IN  IF found = {} THEN d ELSE [d EXCEPT !.days = @ \ {SortByDay(found)[1]}]

\* the loop over data.day_prices of _update_reservation_room
RECURSIVE UpdateDays(_, _, _, _, _, _)
UpdateDays(d, room_pk, existed_days, prices, with_accepted_prices, is_changed) ==
    IF prices = <<>> THEN [db |-> d, changed |-> is_changed]
    ELSE IF Head(prices).day \in existed_days
         THEN LET r == update_reservation_day(d, room_pk, Head(prices), with_accepted_prices)
              IN  UpdateDays(r.db, room_pk, existed_days, Tail(prices), with_accepted_prices,
                             is_changed \/ r.changed)
         ELSE UpdateDays(create_reservation_day(d, room_pk, Head(prices)), room_pk,
                         existed_days, Tail(prices), with_accepted_prices, TRUE)

RECURSIVE DeleteDays(_, _, _)
DeleteDays(d, room_pk, days) ==
    IF days = {} THEN d
    ELSE DeleteDays(delete_reservation_day(d, room_pk, Min(days)), room_pk, days \ {Min(days)})

\* the active room rows of the reservation with an external id, in id order
ActiveWithExt(d, external_id) ==
    {i \in ActiveRoomIds(d) : d.rooms[i].external_id = external_id}

\* _update_reservation_room that writes the accepted prices whatever
\* with_accepted_prices is
update_reservation_room_accepting(d, data, with_accepted_prices) ==
    LET found == ActiveWithExt(d, data.external_id)
        pk == Min(found)
        room_model == d.rooms[pk]
        row == [room_model EXCEPT !.channel_rate_id_changed = data.channel_rate_id,
                                  !.checkin = data.checkin, !.checkout = data.checkout,
                                  !.rate_plan_id = data.rate_plan_id, !.policy = data.policy,
                                  !.guest_name = data.guest_name, !.tax = data.tax,
                                  !.notes_info = data.notes_info,
                                  !.price = data.price, !.netto_price = data.netto_price,
                                  !.price_accepted = data.price,
                                  !.netto_price_accepted = data.netto_price]
        d1 == [d EXCEPT !.rooms[pk] = row]
        existed_days == {x.day : x \in {y \in d.days : y.reservation_room_id = pk}}
        r == UpdateDays(d1, pk, existed_days, data.day_prices, with_accepted_prices,
                        row # room_model)
        processed_days == {data.day_prices[i].day : i \in DOMAIN data.day_prices}
        deleted_days == existed_days \ processed_days
    IN  IF found = {} THEN [db |-> d, changed |-> FALSE]
        ELSE [db |-> DeleteDays(r.db, pk, deleted_days),
              changed |-> r.changed \/ deleted_days # {}]

\* ReservationsRepoOrm._update_reservation_room
update_reservation_room(d, data, with_accepted_prices) ==
    LET found == ActiveWithExt(d, data.external_id)
        pk == Min(found)
        room_model == d.rooms[pk]
        common == [room_model EXCEPT !.channel_rate_id_changed = data.channel_rate_id,
                                     !.checkin = data.checkin, !.checkout = data.checkout,
                                     !.rate_plan_id = data.rate_plan_id, !.policy = data.policy,
                                     !.guest_name = data.guest_name, !.tax = data.tax,
                                     !.notes_info = data.notes_info]
        row == IF with_accepted_prices
               THEN [common EXCEPT !.checkin_original = data.checkin,
                                   !.checkout_original = data.checkout,
                                   !.price_accepted = data.price_accepted,
                                   !.netto_price_accepted = data.netto_price_accepted]
               ELSE [common EXCEPT !.price = data.price, !.netto_price = data.netto_price]
        d1 == [d EXCEPT !.rooms[pk] = row]
        existed_days == {x.day : x \in {y \in d.days : y.reservation_room_id = pk}}
        r == UpdateDays(d1, pk, existed_days, data.day_prices, with_accepted_prices,
                        row # room_model)
        processed_days == {data.day_prices[i].day : i \in DOMAIN data.day_prices}
        deleted_days == existed_days \ processed_days
    IN  IF found = {} THEN [db |-> d, changed |-> FALSE]
        ELSE [db |-> DeleteDays(r.db, pk, deleted_days),
              changed |-> r.changed \/ deleted_days # {}]

\* ReservationRoom.delete that does not record the deletion time
ReservationRoomModel_delete_unstamped(room_model, t) ==
    [room_model EXCEPT !.is_deleted = TRUE]

\* ReservationRoom.delete of board/models/_reservation_room.py
ReservationRoomModel_delete(room_model, t) ==
    [room_model EXCEPT !.is_deleted = TRUE, !.deleted_at = t]

\* ReservationsRepoOrm._delete_reservation_room
delete_reservation_room(d, external_id, t) ==
    LET found == ActiveWithExt(d, external_id)
    IN  IF found = {} THEN d
        ELSE [d EXCEPT !.rooms[Min(found)] = ReservationRoomModel_delete(@, t)]

\* the loop over reservation.rooms of _update_reservation
RECURSIVE UpdateRooms(_, _, _, _, _)
UpdateRooms(d, existed_external_ids, rooms, with_accepted_prices, is_changed) ==
    IF rooms = <<>> THEN [db |-> d, changed |-> is_changed]
    ELSE IF Head(rooms).external_id \in existed_external_ids
         THEN LET r == update_reservation_room(d, Head(rooms), with_accepted_prices)
              IN  UpdateRooms(r.db, existed_external_ids, Tail(rooms), with_accepted_prices,
                              is_changed \/ r.changed)
         ELSE UpdateRooms(create_reservation_room(d, Head(rooms)), existed_external_ids,
                          Tail(rooms), with_accepted_prices, TRUE)

RECURSIVE DeleteRooms(_, _, _)
DeleteRooms(d, external_ids, t) ==
    IF external_ids = <<>> THEN d
    ELSE DeleteRooms(delete_reservation_room(d, Head(external_ids), t), Tail(external_ids), t)

\* ReservationsRepoOrm._update_reservation
update_reservation(d, reservation, with_accepted_prices, t) ==
    LET model == d.res
        common == [model EXCEPT !.status = reservation.status,
                                !.checkin = reservation.checkin,
                                !.checkout = reservation.checkout,
                                !.tax = reservation.tax,
                                !.guest_name = reservation.guest_name,
                                !.close_reason = reservation.close_reason]
        row == IF with_accepted_prices
               THEN [common EXCEPT !.checkin_original = reservation.checkin,
                                   !.checkout_original = reservation.checkout,
                                   !.price_accepted = reservation.price_accepted,
                                   !.netto_price_accepted = reservation.netto_price_accepted]
               ELSE [common EXCEPT !.price = reservation.price,
                                   !.netto_price = reservation.netto_price]
        existed_external_ids == {d.rooms[i].external_id : i \in DOMAIN d.rooms}
        r == UpdateRooms([d EXCEPT !.res = row], existed_external_ids, reservation.rooms,
                         with_accepted_prices, row # model)
        processed_external_ids == {reservation.rooms[i].external_id : i \in DOMAIN reservation.rooms}
        deleted_external_ids ==
            SelectSeq(Col(d.rooms, "external_id"), LAMBDA x : x \notin processed_external_ids)
    IN  [db |-> DeleteRooms(r.db, deleted_external_ids, t),
         changed |-> r.changed \/ deleted_external_ids # <<>>]

\* ReservationsRepoOrm.save
save(d, reservation, with_accepted_prices, t) ==
    IF reservation.id = Null THEN create_reservation(d, reservation)
    ELSE IF reservation.status = "CANCEL" THEN cancel_reservation(d, reservation)
    ELSE update_reservation(d, reservation, with_accepted_prices, t)

\* the room part of accept without the commit of the proposed channel rate
accept_room_keeping_rate(room, t) ==
    LET plan_changed == room.rate_plan_id_original # room.rate_plan_id
    IN  [room EXCEPT !.checkin_original = room.checkin,
                     !.checkout_original = room.checkout,
                     !.rate_plan_id_original = room.rate_plan_id,
                     !.policy_original = IF plan_changed THEN room.policy ELSE @,
                     !.price_accepted = room.price,
                     !.netto_price_accepted = room.netto_price]

\* the room part of ReservationsRepoOrm.accept
accept_room(room, t) ==
    LET plan_changed == room.rate_plan_id_original # room.rate_plan_id
    IN  [room EXCEPT !.channel_rate_id = room.channel_rate_id_changed,
                     !.checkin_original = room.checkin,
                     !.checkout_original = room.checkout,
                     !.rate_plan_id_original = room.rate_plan_id,
                     !.policy_original = IF plan_changed THEN room.policy ELSE @,
                     !.price_accepted = room.price,
                     !.netto_price_accepted = room.netto_price]

\* the day part of accept that takes an empty filter for every day
accept_day_all_without_filter(price, price_ids) ==
    IF price_ids = {} \/ price.id \in price_ids
    THEN [price EXCEPT !.price_original = price.price_changed,
                       !.price_accepted = price.price_changed]
    ELSE price

\* the day part of ReservationsRepoOrm.accept: room.day_prices.filter(id__in=price_ids)
accept_day(price, price_ids) ==
    IF price.id \in price_ids
    THEN [price EXCEPT !.price_original = price.price_changed,
                       !.price_accepted = price.price_changed]
    ELSE price

\* accept without the early return for a verified reservation
accept_again(d, price_ids, t) ==
    LET model == d.res
        active == ActiveRoomIds(d)
    IN  [d EXCEPT
            !.res = [model EXCEPT !.checkin_original = model.checkin,
                                  !.checkout_original = model.checkout,
                                  !.price_accepted = model.price,
                                  !.netto_price_accepted = model.netto_price,
                                  !.is_verified = TRUE, !.verified_at = t],
            !.rooms = [i \in DOMAIN d.rooms |->
                          IF i \in active THEN accept_room(d.rooms[i], t) ELSE d.rooms[i]],
            !.days = {IF x.reservation_room_id \in active THEN accept_day(x, price_ids) ELSE x
                      : x \in d.days}]

\* ReservationsRepoOrm.accept
accept(d, price_ids, t) ==
    LET model == d.res
        active == ActiveRoomIds(d)
    IN  IF model.is_verified THEN d
        ELSE [d EXCEPT
                !.res = [model EXCEPT !.checkin_original = model.checkin,
                                      !.checkout_original = model.checkout,
                                      !.price_accepted = model.price,
                                      !.netto_price_accepted = model.netto_price,
                                      !.is_verified = TRUE, !.verified_at = t],
                !.rooms = [i \in DOMAIN d.rooms |->
                              IF i \in active THEN accept_room(d.rooms[i], t) ELSE d.rooms[i]],
                !.days = {IF x.reservation_room_id \in active THEN accept_day(x, price_ids) ELSE x
                          : x \in d.days}]

----------------------------------------------------------------------------
(* The operations: board/usecases/*.py and the merge of an OTA snapshot *)

\* what the last operation was, with what input, and what it returned:
\* merge_changed is the flag of Reservation.update, save_changed the flag of save
Done(op, arg, merge_changed, save_changed, result) ==
    [op |-> op, arg |-> arg, merge_changed |-> merge_changed,
     save_changed |-> save_changed, result |-> result]

Step(d, l) ==
    /\ db' = d
    /\ pre' = db
    /\ last' = l
    /\ now' = now + 1
    /\ UNCHANGED calc

Stored == db.res # NoRes

\* an operation can start: the behaviour has steps left
Ready == now < MaxSteps

\* merge(None, snapshot): Reservation.load, then save of the new aggregate
CreateFromSnapshot ==
    \E data \in {OtaReservation(BaseParams)} :
        /\ Ready /\ ~Stored
        /\ LET r == save(db, Reservation_load(data), FALSE, now + 1)
           IN  Step(r.db, Done("load", data, TRUE, r.changed, "ok"))

\* merge(existing, snapshot): get, Reservation.update, then save without
\* accepted prices
MergeSnapshot ==
    /\ Ready /\ Stored
    /\ LET existing == get(db) IN
       \E data \in Snapshots :
        /\ is_ota(existing)
        /\ LET m == Reservation_update(existing, data)
               r == save(db, m.entity, FALSE, now + 1)
           IN  Step(r.db, Done("merge", data, m.changed, r.changed, "ok"))

\* the ids of the verify form (VerifyFormSaveView) for a database d: the form
\* shows the days of the active rooms, and none, one or all of them are ticked
FormDayIds(d) == {x.id : x \in {y \in d.days : y.reservation_room_id \in ActiveRoomIds(d)}}
PriceIdFilters == {{}} \cup {{i} : i \in FormDayIds(db)} \cup {FormDayIds(db)}

\* AcceptReservationChanges.check_reservation
AcceptReservationChanges_check_reservation(source) ==
    IF source.house_id # House.id THEN "missed_reservation"
    ELSE IF source.status = "CLOSE" THEN "missed_reservation"
    ELSE IF source.status = "CANCEL" THEN "missed_reservation"
    ELSE IF ~is_ota(source) THEN "missed_reservation"
    ELSE "ok"

\* AcceptReservationChanges.accept_changes
AcceptReservationChanges_accept_changes(d, source, price_ids, t) ==
    IF source.is_verified THEN d ELSE accept(d, price_ids, t)

\* AcceptReservationChanges.execute
AcceptReservationChanges ==
    /\ Ready /\ Stored
    /\ LET source == get(db)
           check == AcceptReservationChanges_check_reservation(source)
       IN  \E price_ids \in PriceIdFilters :
               IF check # "ok" THEN Step(db, Done("accept", price_ids, FALSE, FALSE, check))
               ELSE Step(AcceptReservationChanges_accept_changes(db, source, price_ids, now + 1),
                         Done("accept", price_ids, FALSE, FALSE, "ok"))

\* CancelReservation.check_reservation
CancelReservation_check_reservation(source) ==
    IF source.house_id # House.id THEN "missed_reservation"
    ELSE IF source.status = "CLOSE" THEN "missed_reservation"
    ELSE "ok"

\* CancelReservation.cancel_reservation
CancelReservation_cancel_reservation(d, source, t) ==
    IF source.status = "CANCEL" THEN [db |-> d, changed |-> FALSE]
    ELSE save(d, [source EXCEPT !.status = "CANCEL"], FALSE, t)

\* CancelReservation.execute
CancelReservation ==
    /\ Ready /\ Stored
    /\ LET source == get(db)
           check == CancelReservation_check_reservation(source)
           r == CancelReservation_cancel_reservation(db, source, now + 1)
       IN  IF check # "ok" THEN Step(db, Done("cancel", Null, FALSE, FALSE, check))
           ELSE Step(r.db, Done("cancel", Null, FALSE, r.changed, "ok"))

\* the cancellation policy of a rate plan (RatePlan.policy.dump())
RatePlanPolicy(plan) == plan

\* ReservationsRepoOrm.is_room_busy
is_room_busy(d, room_id, start_date, end_date, exclude_rooms) ==
    \E x \in d.days :
        /\ x.room_id = room_id /\ x.day >= start_date /\ x.day <= end_date
        /\ ~d.rooms[x.reservation_room_id].is_deleted
        /\ d.res.status # "CANCEL"
        /\ (exclude_rooms # {} => x.reservation_room_id \notin exclude_rooms)

\* a new day entity with the defaults of the attrs class
NewDay(reservation_room_id, day) ==
    [id |-> Null, reservation_room_id |-> reservation_room_id, day |-> day,
     roomtype_id |-> Null, room_id |-> Null, price_changed |-> 0, price_accepted |-> 0,
     tax |-> 0, currency |-> NoStr, price_original |-> 0]

\* a new room entity with the defaults of the attrs class
NewRoom(checkin, checkout) ==
    [id |-> Null, reservation_id |-> Null, channel_rate_id |-> NoStr, rate_plan_id |-> Null,
     policy |-> Null, checkin |-> checkin, checkout |-> checkout, external_id |-> NoStr,
     guest_name |-> NoStr, price |-> 0, price_accepted |-> 0, netto_price |-> 0,
     netto_price_accepted |-> 0, tax |-> 0, notes_info |-> NoStr, day_prices |-> <<>>,
     checkin_original |-> Null, checkout_original |-> Null, rate_plan_id_original |-> Null,
     policy_original |-> Null, is_deleted |-> FALSE, deleted_at |-> Null]

\* CreateReservation.make_reservation_from_date; request.prices gives every
\* night of the stay the same price
CreateReservation_make_reservation_from_date(request, t) ==
    LET days == get_days_for_period(request.checkin, request.checkout, TRUE)
        netto_price == SumSeq([i \in DOMAIN days |-> request.prices[days[i]]])
        taxes == IF House.tax > 0 THEN (netto_price * House.tax) \div 100 ELSE 0
        price == netto_price + taxes
        day_prices == [i \in DOMAIN days |->
            LET day_price == request.prices[days[i]]
            IN  [NewDay(Null, days[i]) EXCEPT
                    !.roomtype_id = request.roomtype_id, !.price_changed = day_price,
                    !.price_original = day_price, !.price_accepted = day_price,
                    !.tax = IF House.tax > 0 THEN (day_price * House.tax) \div 100 ELSE 0,
                    !.currency = House.currency]]
        room == [NewRoom(request.checkin, request.checkout) EXCEPT
                    !.rate_plan_id = request.plan_id, !.guest_name = request.guest_name,
                    !.price = price, !.netto_price = netto_price, !.tax = taxes,
                    !.policy = RatePlanPolicy(request.plan_id), !.day_prices = day_prices]
    IN  [id |-> Null, house_id |-> House.id, source |-> "MANUAL", status |-> "HOLD",
         close_reason |-> NoStr, checkin |-> request.checkin, checkout |-> request.checkout,
         price |-> price, price_accepted |-> 0, netto_price |-> netto_price,
         netto_price_accepted |-> 0, tax |-> taxes, guest_name |-> request.guest_name,
         is_verified |-> TRUE, verified_at |-> t, rooms |-> <<room>>]

\* the requests of the reservation form (ReservationRequest)
ReservationRequests ==
    {[roomtype_id |-> 1, plan_id |-> 1, checkin |-> st[1], checkout |-> st[2],
      guest_name |-> "John", prices |-> [x \in Dates |-> 100]] : st \in Stays}

\* CreateReservation.execute: save_reservation, then accept_reservation
CreateReservation ==
    \E request \in ReservationRequests :
        /\ Ready /\ ~Stored
        /\ LET r == save(db, CreateReservation_make_reservation_from_date(request, now + 1),
                         FALSE, now + 1)
           IN  Step(accept(r.db, {}, now + 1), Done("create", request, FALSE, r.changed, "ok"))

\* CreateRoomClose.make_reservation_from_date
CreateRoomClose_make_reservation_from_date(room_id, start_date, end_date, reason, notes, t) ==
    LET days == get_days_for_period(start_date, end_date, TRUE)
        day_prices == [i \in DOMAIN days |->
            [NewDay(Null, days[i]) EXCEPT !.roomtype_id = HouseRooms[room_id],
                                          !.room_id = room_id, !.currency = House.currency]]
        room == [NewRoom(start_date, end_date) EXCEPT !.notes_info = notes,
                                                      !.day_prices = day_prices]
    IN  [id |-> Null, house_id |-> House.id, source |-> "MANUAL", status |-> "CLOSE",
         close_reason |-> reason, checkin |-> start_date, checkout |-> end_date,
         price |-> 0, price_accepted |-> 0, netto_price |-> 0, netto_price_accepted |-> 0,
         tax |-> 0, guest_name |-> NoStr, is_verified |-> TRUE, verified_at |-> t,
         rooms |-> <<room>>]

\* the periods of a room close: parse_period of the views accepts every
\* period with start_date <= end_date
ClosePeriods == Stays \cup {<<1, 1>>}

\* CreateRoomClose.execute: check_room_is_free, save_reservation, accept_reservation
CreateRoomClose ==
    \E room_id \in DOMAIN HouseRooms, st \in ClosePeriods :
        /\ Ready /\ ~Stored
        /\ LET e == CreateRoomClose_make_reservation_from_date(
                        room_id, st[1], st[2], "REPAIR", "note", now + 1)
               r == save(db, e, FALSE, now + 1)
           IN  Step(accept(r.db, {}, now + 1),
                    Done("close", <<room_id, st>>, FALSE, r.changed, "ok"))

\* UpdateRoomClose.check_room_is_free
UpdateRoomClose_check_room_is_free(d, source, room_id, start_date, end_date) ==
    IF is_room_busy(d, room_id, start_date, end_date, Range(Col(source.rooms, "id")))
    THEN "busy_room" ELSE "ok"

\* UpdateRoomClose.make_reservation_from_data
UpdateRoomClose_make_reservation_from_data(source, room_id, start_date, end_date, reason, notes) ==
    LET days == get_days_for_period(start_date, end_date, TRUE)
        prices(room) == [i \in DOMAIN days |->
            IF HasWith(room.day_prices, "day", days[i])
            THEN [LastWith(room.day_prices, "day", days[i]) EXCEPT
                     !.roomtype_id = HouseRooms[room_id], !.room_id = room_id]
            ELSE [NewDay(room.id, days[i]) EXCEPT
                     !.roomtype_id = HouseRooms[room_id], !.room_id = room_id]]
        rooms == [i \in DOMAIN source.rooms |->
            [source.rooms[i] EXCEPT !.checkin = start_date, !.checkout = end_date,
                                    !.notes_info = notes, !.day_prices = prices(source.rooms[i])]]
    IN  [source EXCEPT !.checkin = start_date, !.checkout = end_date,
                       !.close_reason = reason, !.rooms = rooms]

\* UpdateRoomClose.execute: select_reservation, check_room_is_free,
\* make_reservation_from_data, save_reservation, accept_reservation
UpdateRoomClose ==
    /\ Ready /\ Stored
    /\ LET source == get(db) IN
       \E room_id \in DOMAIN HouseRooms, st \in ClosePeriods :
           LET check == UpdateRoomClose_check_room_is_free(db, source, room_id, st[1], st[2])
               e == UpdateRoomClose_make_reservation_from_data(
                        source, room_id, st[1], st[2], "OTHER", "changed")
               r == save(db, e, FALSE, now + 1)
           IN  IF check # "ok" THEN Step(db, Done("reclose", Null, FALSE, FALSE, check))
               ELSE Step(accept(r.db, {}, now + 1),
                         Done("reclose", <<room_id, st>>, FALSE, r.changed, "ok"))

\* the cached part of a reservation room that a move names (the pk of
\* UpdateReservationCache.init_cached_reservation): the nights of the room
CachedPeriod(room) ==
    [start_date |-> Min(Range(Col(room.day_prices, "day"))),
     end_date |-> Max(Range(Col(room.day_prices, "day")))]

\* MoveReservation.update_reservation: dest is a room type or a room of the house
MoveReservation_update_reservation(reservation, room_pk, start_date, end_date, dest) ==
    LET move(price) ==
            IF start_date <= price.day /\ price.day <= end_date
            THEN IF dest.room_type # Null
                 THEN [price EXCEPT !.roomtype_id = dest.room_type, !.room_id = Null]
                 ELSE [price EXCEPT !.room_id = dest.room, !.roomtype_id = HouseRooms[dest.room]]
            ELSE price
    IN  [reservation EXCEPT !.rooms = [i \in DOMAIN @ |->
            IF @[i].id = room_pk
            THEN [@[i] EXCEPT !.day_prices = [j \in DOMAIN @ |-> move(@[j])]]
            ELSE @[i]]]

MoveDestinations ==
    {[room_type |-> x, room |-> Null] : x \in HouseRoomTypes}
    \cup {[room_type |-> Null, room |-> x] : x \in DOMAIN HouseRooms}

\* MoveReservation.execute: select_reservation_from_cache, select_reservation_from_db,
\* update_reservation, save
MoveReservation ==
    /\ Ready /\ Stored
    /\ LET reservation == get(db) IN
       IF reservation.status = "CANCEL"
       THEN Step(db, Done("move", Null, FALSE, FALSE, "missed_reservation"))
       ELSE \E dest \in MoveDestinations, i \in DOMAIN reservation.rooms :
                   /\ reservation.rooms[i].day_prices # <<>>
                   /\ LET room == reservation.rooms[i]
                          e == MoveReservation_update_reservation(
                                   reservation, room.id, CachedPeriod(room).start_date,
                                   CachedPeriod(room).end_date, dest)
                          r == save(db, e, FALSE, now + 1)
                      IN  Step(r.db, Done("move", <<room.id, dest>>, FALSE, r.changed, "ok"))

\* UpdateReservationPrices.check_reservation
UpdateReservationPrices_check_reservation(source) ==
    IF source.house_id # House.id THEN "missed_reservation"
    ELSE IF ~allow_update_prices(source) THEN "missed_reservation"
    ELSE "ok"

\* UpdateReservationPrices.is_allow_update_period
is_allow_update_period(source, reservation_room, prices) ==
    IF ~is_ota(source) THEN "ok"
    ELSE IF \/ Min(DOMAIN prices) # reservation_room.checkin
            \/ Max(DOMAIN prices) # reservation_room.checkout - 1
         THEN "wrong_period"
         ELSE "ok"

\* UpdateReservationPrices._room_type_for_failback
room_type_for_failback(reservation_room) ==
    LET ok == {i \in DOMAIN reservation_room.day_prices :
                  reservation_room.day_prices[i].roomtype_id > 0}
    IN  IF ok = {} THEN Null ELSE reservation_room.day_prices[Min(ok)].roomtype_id

\* UpdateReservationPrices.make_reservation_from_data: prices maps a day to
\* the price and the room of the form
UpdateReservationPrices_make_reservation_from_data(source, reservation_room, plan_id, prices) ==
    LET failback_roomtype_id == room_type_for_failback(reservation_room)
        days == SeqOfSet(DOMAIN prices)
        new_day(room, day) ==
            LET data == prices[day]
                p0 == IF HasWith(room.day_prices, "day", day)
                      THEN LastWith(room.day_prices, "day", day)
                      ELSE [NewDay(room.id, day) EXCEPT !.price_changed = data.price]
                p1 == [p0 EXCEPT !.price_accepted = data.price,
                                 !.tax = (data.price * House.tax) \div 100,
                                 !.room_id = data.room]
                p2 == IF data.room # Null /\ HouseRooms[data.room] \in HouseRoomTypes
                      THEN [p1 EXCEPT !.roomtype_id = HouseRooms[data.room]] ELSE p1
            IN  IF p2.roomtype_id <= 0 THEN [p2 EXCEPT !.roomtype_id = failback_roomtype_id]
                ELSE p2
        new_room(room) ==
            LET day_prices == [i \in DOMAIN days |-> new_day(room, days[i])]
                netto == SumSeq(Col(day_prices, "price_accepted"))
                tax == SumSeq(Col(day_prices, "tax"))
                changed_plan == room.rate_plan_id # plan_id
            IN  [room EXCEPT !.rate_plan_id = plan_id,
                             !.policy = IF changed_plan THEN RatePlanPolicy(plan_id) ELSE @,
                             !.day_prices = day_prices,
                             !.netto_price_accepted = netto, !.tax = tax,
                             !.price_accepted = netto + tax,
                             !.checkin = Min(Range(Col(day_prices, "day"))),
                             !.checkout = Max(Range(Col(day_prices, "day"))) + 1]
        rooms == [i \in DOMAIN source.rooms |->
                    IF source.rooms[i].id # reservation_room.id THEN source.rooms[i]
                    ELSE new_room(source.rooms[i])]
    IN  [source EXCEPT !.rooms = rooms,
                       !.netto_price_accepted = SumSeq(Col(rooms, "netto_price_accepted")),
                       !.price_accepted = SumSeq(Col(rooms, "price_accepted")),
                       !.tax = SumSeq(Col(rooms, "tax")),
                       !.checkin = Min(Range(Col(rooms, "checkin"))),
                       !.checkout = Max(Range(Col(rooms, "checkout")))]

\* the price forms: every night of a stay at one price, in one room or in
\* none, with a rate plan; a form differs from the first one in one choice.
\* The days of a form are those the request names (parse_price_data): the
\* last form names the first day and the day after the last one, and no day
\* between them
PriceForms ==
    {[plan_id |-> c[3], prices |-> [x \in st[1] .. st[2] - 1 |-> [price |-> c[1], room |-> c[2]]]] :
        st \in Stays,
        c \in ({<<p, Null, 1>> : p \in DayPrices} \cup {<<100, 2, 1>>}
               \cup {<<100, Null, x>> : x \in RatePlans})}
    \cup {[plan_id |-> 1, prices |-> [x \in {1, MaxDay + 1} |-> [price |-> 100, room |-> Null]]]}

\* UpdateReservationPrices.execute: select_reservation, check_reservation,
\* select_reservation_room, is_allow_update_period, make_reservation_from_data,
\* save_reservation with accepted prices
UpdateReservationPrices ==
        /\ Ready /\ Stored
        /\ LET source == get(db)
               check == UpdateReservationPrices_check_reservation(source)
           IN  IF check # "ok" THEN Step(db, Done("prices", Null, FALSE, FALSE, check))
               ELSE \E form \in PriceForms, i \in DOMAIN source.rooms :
                       LET room == source.rooms[i]
                           prices == form.prices
                           plan_id == form.plan_id
                           period == is_allow_update_period(source, room, prices)
                           e == UpdateReservationPrices_make_reservation_from_data(
                                    source, room, plan_id, prices)
                           r == save(db, e, TRUE, now + 1)
                       IN  IF period # "ok"
                           THEN Step(db, Done("prices", Null, FALSE, FALSE, period))
                           ELSE Step(r.db, Done("prices", <<room.id, plan_id, prices>>, FALSE,
                                                r.changed, "ok"))

----------------------------------------------------------------------------
(* The price calculation: board/usecases/_calculate_new_reservation.py.     *)
(* Amounts are in hundredths, so that a percentage of a price is exact.     *)

CalcPrices == {100 * p : p \in DayPrices}
Percents == {10, 20}
Inventories == 0 .. MaxFree

\* the availability discounts of the house (AvailabilityDiscount)
AvailabilityDiscounts ==
    [free_rooms : 1 .. MaxFree, discount : Percents, start_date : {1}, end_date : {1, MaxDay}]

\* the lists of at most two discounts
DiscountLists ==
    {<<>>} \cup {<<x>> : x \in AvailabilityDiscounts}
    \cup {<<x, y>> : x \in AvailabilityDiscounts, y \in AvailabilityDiscounts}

\* the contexts that reach check_availability_discounts: without a rate there
\* are no prices and no discounts (select_daily_prices, select_discounts)
CalcContexts ==
    {[rate |-> Null, prices |-> [x \in Dates |-> Absent], discounts |-> <<>>,
      occupancies |-> [x \in Dates |-> Absent]]}
    \cup [rate : {1}, prices : [Dates -> CalcPrices \cup {Absent}], discounts : DiscountLists,
          occupancies : [Dates -> Inventories \cup {Absent}]]

\* CalculateNewReservation.apply_availability_discount that applies the first
\* eligible discount of the list
apply_availability_discount_first(discounts, day, value, inventory) ==
    LET inv == IF inventory = Absent THEN 0 ELSE inventory
        eligible == SelectSeq(discounts, LAMBDA x :
                        x.free_rooms <= inv /\ x.start_date <= day /\ day <= x.end_date)
    IN  IF eligible = <<>> THEN [ok |-> TRUE, value |-> value]
        ELSE IF value = Absent THEN [ok |-> FALSE, value |-> value]
        ELSE [ok |-> TRUE, value |-> (value * (100 - eligible[1].discount)) \div 100]

\* CalculateNewReservation.apply_availability_discount; the product of None
\* and a Decimal raises (ok is FALSE)
apply_availability_discount(discounts, day, value, inventory) ==
    LET inv == IF inventory = Absent THEN 0 ELSE inventory
        eligible == SelectSeq(discounts, LAMBDA x :
                        x.free_rooms <= inv /\ x.start_date <= day /\ day <= x.end_date)
        highest == Max({eligible[i].discount : i \in DOMAIN eligible})
    IN  IF eligible = <<>> THEN [ok |-> TRUE, value |-> value]
        ELSE IF value = Absent THEN [ok |-> FALSE, value |-> value]
        ELSE [ok |-> TRUE, value |-> (value * (100 - highest)) \div 100]

\* CalculateNewReservation.check_availability_discounts: the context after it
\* and its result
check_availability_discounts(ctx) ==
    LET applied == [x \in DOMAIN ctx.prices |->
                       apply_availability_discount(ctx.discounts, x, ctx.prices[x],
                                                   ctx.occupancies[x])]
    IN  IF ctx.discounts = <<>> \/ ctx.rate = Null \/ DOMAIN ctx.prices = {}
        THEN [ctx |-> ctx, result |-> "ok"]
        ELSE IF \E x \in DOMAIN applied : ~applied[x].ok
             THEN [ctx |-> ctx, result |-> "error"]
             ELSE [ctx |-> [ctx EXCEPT !.prices = [x \in DOMAIN applied |-> applied[x].value]],
                   result |-> "ok"]

\* the step of the calculation that applies the availability discounts
CheckAvailabilityDiscounts ==
    /\ calc.step = "select_occupancies"
    /\ LET r == check_availability_discounts(calc.ctx)
       IN  calc' = [calc EXCEPT !.step = "check_availability_discounts", !.ctx = r.ctx,
                                !.result = r.result]
    /\ UNCHANGED <<db, pre, last, now>>

InitCalc ==
    /\ db = EmptyDb
    /\ pre = EmptyDb
    /\ last = Done("init", Null, FALSE, FALSE, "ok")
    /\ now = 0
    /\ \E ctx \in CalcContexts :
           calc = [step |-> "select_occupancies", given |-> ctx, ctx |-> ctx, result |-> "ok"]

NextCalc == CheckAvailabilityDiscounts

SpecCalc == InitCalc /\ [][NextCalc]_vars

----------------------------------------------------------------------------
(* The whole price calculation, CalculateNewReservation.execute, as a       *)
(* function of the request and of what the repositories hold (the world w). *)
(* A step returns the context after it and its result; ctx.trace lists the  *)
(* steps that were called.  ctx.rate is the id of the selected rate;        *)
(* ctx.discounts, ctx.last_minute and ctx.los are the three lists of        *)
(* ctx.discounts in the source.                                             *)

Success(ctx) == [ctx |-> ctx, result |-> "ok"]
Failure(ctx, failure) == [ctx |-> ctx, result |-> failure]
Enter(ctx, name) == [ctx EXCEPT !.trace = Append(@, name)]

\* returns.pointfree.bind_result: the step runs on a success only
bind_result(r, step(_)) == IF r.result = "ok" THEN step(r.ctx) ELSE r

\* returns.pipeline.flow over the named steps of a use case, each bound with
\* bind_result
flow(r, names, step(_, _)) ==
    LET after[i \in 0 .. Len(names)] ==
            IF i = 0 THEN r ELSE bind_result(after[i - 1], LAMBDA c : step(names[i], c))
    IN  after[Len(names)]

\* HouseSelectMixin.select_house
select_house(w, c) ==
    LET ctx == Enter(c, "select_house")
    IN  IF ctx.house_id <= 0 THEN Failure(ctx, "missed_house")
        ELSE IF w.raises = "select_house" THEN Failure(ctx, "error")
        ELSE IF ctx.house_id # House.id THEN Failure(ctx, "missed_house")
        ELSE Success([ctx EXCEPT !.house = House.id])

\* RoomTypeSelectMixin.select_room_type
select_room_type(w, c) ==
    LET ctx == Enter(c, "select_room_type")
    IN  IF ctx.roomtype_id <= 0 THEN Failure(ctx, "missed_roomtype")
        ELSE IF w.raises = "select_room_type" THEN Failure(ctx, "error")
        ELSE IF ctx.roomtype_id \notin HouseRoomTypes THEN Failure(ctx, "missed_roomtype")
        ELSE Success([ctx EXCEPT !.room_type = ctx.roomtype_id])

\* CalculateNewReservation.select_rate_plan
select_rate_plan(w, c) ==
    LET ctx == Enter(c, "select_rate_plan")
    IN  IF ctx.plan_id <= 0 THEN Failure(ctx, "missed_rateplan")
        ELSE IF w.raises = "select_rate_plan" THEN Failure(ctx, "error")
        ELSE IF ctx.plan_id \notin RatePlans THEN Failure(ctx, "missed_rateplan")
        ELSE Success([ctx EXCEPT !.rate_plan = ctx.plan_id])

\* CalculateNewReservation.select_rates
select_rates(w, c) ==
    LET ctx == Enter(c, "select_rates")
    IN  IF w.raises = "select_rates" THEN Failure(ctx, "error")
        ELSE Success([ctx EXCEPT !.rates = w.rates])

\* CalculateNewReservation.select_rate_by_id that selects no rate
select_rate_by_id_ignored(w, c) == Success(Enter(c, "select_rate_by_id"))

\* CalculateNewReservation.select_rate_by_id: _rates.get(pk) is the last rate
\* of the list with the id, or None
select_rate_by_id(w, c) ==
    LET ctx == Enter(c, "select_rate_by_id")
        pk == ctx.rate_id
    IN  IF pk <= 0 \/ ctx.rates = <<>> THEN Success(ctx)
        ELSE IF HasWith(ctx.rates, "id", pk)
             THEN Success([ctx EXCEPT !.rate = LastWith(ctx.rates, "id", pk).id])
             ELSE Success([ctx EXCEPT !.rate = Null])

\* CalculateNewReservation.select_rate_by_guest_count that looks for a smaller
\* occupancy before a bigger one
select_rate_by_guest_count_smaller_first(w, c) ==
    LET ctx == Enter(c, "select_rate_by_guest_count")
        keys == {ctx.rates[i].occupancy : i \in DOMAIN ctx.rates}
        bigger == {k \in keys : k > ctx.guest_count}
        smaller == {k \in keys : k < ctx.guest_count}
        rate_of(k) == LastWith(ctx.rates, "occupancy", k).id
    IN  IF ctx.rate # Null \/ ctx.rates = <<>> THEN Success(ctx)
        ELSE IF ctx.guest_count \in keys
             THEN Success([ctx EXCEPT !.rate = rate_of(ctx.guest_count)])
        ELSE IF smaller # {} THEN Success([ctx EXCEPT !.rate = rate_of(Max(smaller))])
        ELSE IF bigger # {} THEN Success([ctx EXCEPT !.rate = rate_of(Min(bigger))])
        ELSE Success(ctx)

\* CalculateNewReservation.select_rate_by_guest_count: _rates keeps the last
\* rate of the list for an occupancy
select_rate_by_guest_count(w, c) ==
    LET ctx == Enter(c, "select_rate_by_guest_count")
        keys == {ctx.rates[i].occupancy : i \in DOMAIN ctx.rates}
        bigger == {k \in keys : k > ctx.guest_count}
        smaller == {k \in keys : k < ctx.guest_count}
        rate_of(k) == LastWith(ctx.rates, "occupancy", k).id
    IN  IF ctx.rate # Null \/ ctx.rates = <<>> THEN Success(ctx)
        ELSE IF ctx.guest_count \in keys
             THEN Success([ctx EXCEPT !.rate = rate_of(ctx.guest_count)])
        ELSE IF bigger # {} THEN Success([ctx EXCEPT !.rate = rate_of(Min(bigger))])
        ELSE IF smaller # {} THEN Success([ctx EXCEPT !.rate = rate_of(Max(smaller))])
        ELSE Success(ctx)

\* CalculateNewReservation.select_price_restrictions
select_price_restrictions(w, c) ==
    LET ctx == Enter(c, "select_price_restrictions")
    IN  IF ctx.rate = Null THEN Success(ctx)
        ELSE IF w.raises = "select_price_restrictions" THEN Failure(ctx, "error")
        ELSE Success([ctx EXCEPT !.price_restrictions = w.restrictions])

\* CalculateNewReservation.select_daily_prices that does not update the
\* prices with the data of the repository
select_daily_prices_without_update(w, c) ==
    LET ctx == Enter(c, "select_daily_prices")
        days == Range(get_days_for_period(ctx.start_date, ctx.end_date, TRUE))
    IN  Success([ctx EXCEPT !.prices = [x \in days |-> Absent]])

\* CalculateNewReservation.select_daily_prices: w.source gives the price of a
\* day of the period or has no entry for it
select_daily_prices(w, c) ==
    LET ctx == Enter(c, "select_daily_prices")
        days == Range(get_days_for_period(ctx.start_date, ctx.end_date, TRUE))
        none == [ctx EXCEPT !.prices = [x \in days |-> Absent]]
    IN  IF ctx.rate = Null THEN Success(none)
        ELSE IF w.raises = "select_daily_prices" THEN Failure(none, "error")
        ELSE Success([ctx EXCEPT !.prices = [x \in days |-> w.source[x]]])

\* CalculateNewReservation.select_discounts: the discounts of the rate plan
\* and those of every rate plan
select_discounts(w, c) ==
    LET ctx == Enter(c, "select_discounts")
        mine(discounts) == SelectSeq(discounts, LAMBDA x :
                               ctx.rate_plan \in x.rate_plans \/ x.rate_plans = {})
    IN  IF ctx.rate = Null THEN Success(ctx)
        ELSE IF w.raises = "select_discounts" THEN Failure(ctx, "error")
        ELSE Success([ctx EXCEPT !.last_minute = mine(w.last_minute),
                                 !.discounts = mine(w.availability),
                                 !.los = mine(w.los)])

\* CalculateNewReservation.select_occupancies
select_occupancies(w, c) ==
    LET ctx == Enter(c, "select_occupancies")
        days == Range(get_days_for_period(ctx.start_date, ctx.end_date, TRUE))
    IN  IF ctx.rate = Null \/ ctx.discounts = <<>> THEN Success(ctx)
        ELSE IF w.raises = "select_occupancies" THEN Failure(ctx, "error")
        ELSE Success([ctx EXCEPT !.occupancies = [x \in days |-> w.occupancies[x]]])

\* timezone.localdate() in apply_last_minute_discount: the first day
Today == 1

\* CalculateNewReservation.apply_last_minute_discount; the product of None
\* and a Decimal raises (ok is FALSE)
apply_last_minute_discount(discounts, day, value) ==
    LET check_date == day - Today
        eligible == SelectSeq(discounts, LAMBDA x :
                        x.days_before >= check_date /\ x.start_date <= day /\ day <= x.end_date)
        highest == Max({eligible[i].discount : i \in DOMAIN eligible})
    IN  IF eligible = <<>> THEN [ok |-> TRUE, value |-> value]
        ELSE IF value = Absent THEN [ok |-> FALSE, value |-> value]
        ELSE [ok |-> TRUE, value |-> (value * (100 - highest)) \div 100]

\* CalculateNewReservation.apply_los_discount
apply_los_discount(discounts, day, value, nights) ==
    LET eligible == SelectSeq(discounts, LAMBDA x :
                        x.nights <= nights /\ x.start_date <= day /\ day <= x.end_date)
        highest == Max({eligible[i].discount : i \in DOMAIN eligible})
    IN  IF eligible = <<>> THEN [ok |-> TRUE, value |-> value]
        ELSE IF value = Absent THEN [ok |-> FALSE, value |-> value]
        ELSE [ok |-> TRUE, value |-> (value * (100 - highest)) \div 100]

\* CalculateNewReservation.apply_min_price that sets the restricted price
apply_min_price_as_price(restrictions, day, value) ==
    IF DOMAIN restrictions = {} \/ day \notin DOMAIN restrictions
    THEN [ok |-> TRUE, value |-> value]
    ELSE IF value = Absent THEN [ok |-> FALSE, value |-> value]
    ELSE [ok |-> TRUE, value |-> restrictions[day]]

\* CalculateNewReservation.apply_min_price; max of None and a Decimal raises
apply_min_price(restrictions, day, value) ==
    IF DOMAIN restrictions = {} \/ day \notin DOMAIN restrictions
    THEN [ok |-> TRUE, value |-> value]
    ELSE IF value = Absent THEN [ok |-> FALSE, value |-> value]
    ELSE [ok |-> TRUE, value |-> Max({value, restrictions[day]})]

\* the prices after a step that maps every day, or the failure of the step
Applied(ctx, applied) ==
    IF \E x \in DOMAIN applied : ~applied[x].ok
    THEN Failure(ctx, "error")
    ELSE Success([ctx EXCEPT !.prices = [x \in DOMAIN applied |-> applied[x].value]])

\* CalculateNewReservation.check_last_minute_discounts
check_last_minute_discounts(w, c) ==
    LET ctx == Enter(c, "check_last_minute_discounts")
    IN  IF ctx.rate = Null \/ DOMAIN ctx.prices = {} \/ ctx.last_minute = <<>>
        THEN Success(ctx)
        ELSE Applied(ctx, [x \in DOMAIN ctx.prices |->
                 apply_last_minute_discount(ctx.last_minute, x, ctx.prices[x])])

\* CalculateNewReservation.check_los_discounts
check_los_discounts(w, c) ==
    LET ctx == Enter(c, "check_los_discounts")
        nights == ctx.end_date - ctx.start_date
    IN  IF ctx.rate = Null \/ DOMAIN ctx.prices = {} \/ ctx.los = <<>>
        THEN Success(ctx)
        ELSE Applied(ctx, [x \in DOMAIN ctx.prices |->
                 apply_los_discount(ctx.los, x, ctx.prices[x], nights)])

\* CalculateNewReservation.check_min_prices
check_min_prices(w, c) ==
    LET ctx == Enter(c, "check_min_prices")
    IN  IF ctx.rate = Null \/ DOMAIN ctx.price_restrictions = {}
        THEN Success(ctx)
        ELSE Applied(ctx, [x \in DOMAIN ctx.prices |->
                 apply_min_price(ctx.price_restrictions, x, ctx.prices[x])])

\* CalculateNewReservation.make_result
make_result(w, c) == Success(Enter(c, "make_result"))

\* Context as execute builds it from the request
Context(w) ==
    [house_id |-> w.house_id, roomtype_id |-> w.roomtype_id, plan_id |-> w.plan_id,
     start_date |-> w.start_date, end_date |-> w.end_date, guest_count |-> w.guest_count,
     rate_id |-> w.rate_id, house |-> Null, room_type |-> Null, rate_plan |-> Null,
     rate |-> Null, rates |-> <<>>, prices |-> <<>>, discounts |-> <<>>,
     last_minute |-> <<>>, los |-> <<>>, occupancies |-> [x \in Dates |-> Absent],
     price_restrictions |-> <<>>, trace |-> <<>>]

\* CalculateNewReservation.execute that runs every step whatever the result of
\* the step before
CalculateNewReservation_execute_through(w) ==
    LET run(r, step(_, _)) ==
            LET n == step(w, r.ctx)
            IN  [ctx |-> n.ctx, result |-> IF r.result = "ok" THEN n.result ELSE r.result]
        s1 == select_house(w, Context(w))
        s2 == run(s1, select_room_type)
        s3 == run(s2, select_rate_plan)
        s4 == run(s3, select_rates)
        s5 == run(s4, select_rate_by_id)
        s6 == run(s5, select_rate_by_guest_count)
        s7 == run(s6, select_price_restrictions)
        s8 == run(s7, select_daily_prices)
        s9 == run(s8, select_discounts)
        s10 == run(s9, select_occupancies)
        s11 == run(s10, check_last_minute_discounts)
        s12 == run(s11, LAMBDA v, c :
                   check_availability_discounts(Enter(c, "check_availability_discounts")))
        s13 == run(s12, check_los_discounts)
        s14 == run(s13, check_min_prices)
    IN  run(s14, make_result)

\* CalculateNewReservation.execute: the flow of the steps
CalculateNewReservation_execute(w) ==
    LET av(c) == check_availability_discounts(Enter(c, "check_availability_discounts"))
        s1 == select_house(w, Context(w))
        s2 == bind_result(s1, LAMBDA c : select_room_type(w, c))
        s3 == bind_result(s2, LAMBDA c : select_rate_plan(w, c))
        s4 == bind_result(s3, LAMBDA c : select_rates(w, c))
        s5 == bind_result(s4, LAMBDA c : select_rate_by_id(w, c))
        s6 == bind_result(s5, LAMBDA c : select_rate_by_guest_count(w, c))
        s7 == bind_result(s6, LAMBDA c : select_price_restrictions(w, c))
        s8 == bind_result(s7, LAMBDA c : select_daily_prices(w, c))
        s9 == bind_result(s8, LAMBDA c : select_discounts(w, c))
        s10 == bind_result(s9, LAMBDA c : select_occupancies(w, c))
        s11 == bind_result(s10, LAMBDA c : check_last_minute_discounts(w, c))
        s12 == bind_result(s11, av)
        s13 == bind_result(s12, LAMBDA c : check_los_discounts(w, c))
        s14 == bind_result(s13, LAMBDA c : check_min_prices(w, c))
    IN  bind_result(s14, LAMBDA c : make_result(w, c))

\* the rates of a room type for a rate plan (Rate): at most two
RateLists ==
    {<<>>} \cup {<<[id |-> 1, occupancy |-> a]>> : a \in 1 .. MaxOcc}
    \cup {<<[id |-> 1, occupancy |-> a], [id |-> 2, occupancy |-> b]>> :
              a \in 1 .. MaxOcc, b \in 1 .. MaxOcc}

\* the min-price restrictions of the period: none, or one value for a set of days
MinPrice == 8500
Restrictions == {<<>>} \cup {[x \in 1 .. d |-> MinPrice] : d \in Dates}

\* the active discounts of the room type; a discount with rate plan 2 is not
\* for the requested rate plan
LastMinDiscounts ==
    {<<>>}
    \cup {<<[days_before |-> b, discount |-> 10, start_date |-> 1, end_date |-> e,
            rate_plans |-> {}]>> : b \in 0 .. 1, e \in {1, MaxDay}}
    \cup {<<[days_before |-> 1, discount |-> 10, start_date |-> 1, end_date |-> MaxDay,
            rate_plans |-> {2}]>>}
AvailabilityLists ==
    {<<>>}
    \cup {<<[free_rooms |-> f, discount |-> 20, start_date |-> 1, end_date |-> e,
            rate_plans |-> {}]>> : f \in 1 .. MaxFree, e \in {1, MaxDay}}
    \cup {<<[free_rooms |-> 1, discount |-> 10, start_date |-> 1, end_date |-> MaxDay,
            rate_plans |-> {1}],
           [free_rooms |-> MaxFree, discount |-> 20, start_date |-> 1, end_date |-> MaxDay,
            rate_plans |-> {2}]>>}
LOSDiscounts ==
    {<<>>}
    \cup {<<[nights |-> n, discount |-> 10, start_date |-> 1, end_date |-> MaxDay,
            rate_plans |-> {1}]>> : n \in 1 .. 2}

\* the repository call that raises, if any
Raising ==
    {"select_house", "select_room_type", "select_rate_plan", "select_rates",
     "select_price_restrictions", "select_daily_prices", "select_discounts",
     "select_occupancies"}

\* a request for one guest of rate plan 1 in room type 1 of the house, and
\* what the repositories hold for it
BaseWorld ==
    [usecase |-> "calculate", house_id |-> House.id, roomtype_id |-> 1, plan_id |-> 1,
     start_date |-> 1, end_date |-> MaxDay + 1, guest_count |-> 1, rate_id |-> Null,
     rates |-> <<[id |-> 1, occupancy |-> 1]>>,
     source |-> [x \in Dates |-> 10000], restrictions |-> <<>>,
     last_minute |-> <<>>, availability |-> <<>>, los |-> <<>>,
     occupancies |-> [x \in Dates |-> Absent], raises |-> "none"]

\* the requests that differ in the candidates and in what selects the rate
RateWorlds ==
    {[BaseWorld EXCEPT !.rates = rs, !.guest_count = g, !.rate_id = r,
                       !.start_date = st[1], !.end_date = st[2]] :
         rs \in RateLists, g \in 1 .. MaxOcc, r \in {Null, 1, 2, 3}, st \in Stays}

\* the requests that differ in the ids and in the repository call that raises
FailingWorlds ==
    {[BaseWorld EXCEPT !.house_id = h, !.roomtype_id = t, !.plan_id = p, !.raises = e,
                       !.availability = <<[free_rooms |-> 1, discount |-> 20,
                                           start_date |-> 1, end_date |-> MaxDay,
                                           rate_plans |-> {}]>>] :
         h \in {Null, 1, 3}, t \in {Null, 1, 3}, p \in {Null, 1, 3},
         e \in Raising \cup {"none"}}

\* the requests that differ in the prices, the restrictions and the discounts
PriceWorlds ==
    {[BaseWorld EXCEPT !.start_date = st[1], !.end_date = st[2], !.source = s,
                       !.restrictions = m, !.last_minute = l, !.availability = a,
                       !.los = n, !.occupancies = [x \in Dates |-> o]] :
         st \in Stays, s \in [Dates -> CalcPrices \cup {Absent}], m \in Restrictions,
         l \in LastMinDiscounts, a \in AvailabilityLists, n \in LOSDiscounts,
         o \in {Absent, 1, MaxFree}}

\* the steps of CreateReservation.execute and of CalculateNewReservation.execute
CreateSteps ==
    <<"select_house", "select_room_type", "select_rate_plan", "select_rate",
      "select_cancellation_policy", "make_reservation_from_date", "save_reservation",
      "accept_reservation", "write_changelog">>
CalculateSteps ==
    <<"select_house", "select_room_type", "select_rate_plan", "select_rates",
      "select_rate_by_id", "select_rate_by_guest_count", "select_price_restrictions",
      "select_daily_prices", "select_discounts", "select_occupancies",
      "check_last_minute_discounts", "check_availability_discounts", "check_los_discounts",
      "check_min_prices", "make_result">>

\* CreateReservation.execute as the flow of its steps: "not_saved" and
\* "not_accepted" are a save and an accept that return nothing;
\* write_changelog logs what its repository raises and succeeds
CreateReservation_execute(w) ==
    LET step(name, c) ==
            CASE name = "select_house" -> select_house(w, c)
              [] name = "select_room_type" -> select_room_type(w, c)
              [] name = "select_rate_plan" -> select_rate_plan(w, c)
              [] name = "select_rate" ->
                     IF w.rate_id <= 0 THEN Failure(Enter(c, name), "missed_rate")
                     ELSE IF w.raises = "select_rates" THEN Failure(Enter(c, name), "error")
                     ELSE IF ~HasWith(w.rates, "id", w.rate_id)
                          THEN Failure(Enter(c, name), "missed_rate")
                     ELSE Success([Enter(c, name) EXCEPT !.rate = w.rate_id])
              [] name = "save_reservation" ->
                     IF w.raises = "not_saved" THEN Failure(Enter(c, name), "save")
                     ELSE IF w.raises = name THEN Failure(Enter(c, name), "error")
                     ELSE Success(Enter(c, name))
              [] name = "accept_reservation" ->
                     IF w.raises = "not_accepted" THEN Failure(Enter(c, name), "save")
                     ELSE IF w.raises = name THEN Failure(Enter(c, name), "error")
                     ELSE Success(Enter(c, name))
              [] name = "select_cancellation_policy" ->
                     IF w.raises = name THEN Failure(Enter(c, name), "error")
                     ELSE Success(Enter(c, name))
              [] OTHER -> Success(Enter(c, name))
    IN  flow(Success(Context(w)), CreateSteps, step)

\* the requests to create a reservation that differ in the ids and in the
\* repository call that fails
CreateWorlds ==
    {[BaseWorld EXCEPT !.usecase = "create", !.house_id = h, !.roomtype_id = t,
                       !.plan_id = p, !.rate_id = r, !.raises = e] :
         h \in {Null, 1, 3}, t \in {Null, 1, 3}, p \in {Null, 1, 3}, r \in {Null, 1, 3},
         e \in {"none", "select_house", "select_room_type", "select_rate_plan",
                "select_rates", "select_cancellation_policy", "save_reservation",
                "not_saved", "accept_reservation", "not_accepted", "write_changelog"}}

Worlds == RateWorlds \cup FailingWorlds \cup PriceWorlds \cup CreateWorlds

\* the steps of the creation of a reservation
CreateReservationFlow ==
    /\ calc.step = "request" /\ calc.given.usecase = "create"
    /\ LET r == CreateReservation_execute(calc.given)
       IN  calc' = [calc EXCEPT !.step = "create", !.ctx = r.ctx, !.result = r.result]
    /\ UNCHANGED <<db, pre, last, now>>

\* the calculation of the prices of a new reservation
CalculateNewReservation ==
    /\ calc.step = "request" /\ calc.given.usecase = "calculate"
    /\ LET r == CalculateNewReservation_execute(calc.given)
       IN  calc' = [calc EXCEPT !.step = "execute", !.ctx = r.ctx, !.result = r.result]
    /\ UNCHANGED <<db, pre, last, now>>

InitResolve ==
    /\ db = EmptyDb
    /\ pre = EmptyDb
    /\ last = Done("init", Null, FALSE, FALSE, "ok")
    /\ now = 0
    /\ \E w \in Worlds :
           calc = [step |-> "request", given |-> w, ctx |-> Context(w), result |-> "ok"]

NextResolve == CalculateNewReservation \/ CreateReservationFlow

SpecResolve == InitResolve /\ [][NextResolve]_vars

----------------------------------------------------------------------------
(* The background tasks: board/tasks.py, and the use cases they run.  A     *)
(* task is queued with its arguments (calc.given), runs its use case and    *)
(* logs, notifies, queues the invoice task or retries; calc.ctx holds the   *)
(* steps of the last run and what the task did after it.                    *)

MaxRetries == 2
TaskNames ==
    {"calculate_occupancy", "cancel_reservation_in_odoo", "register_reservation_in_odoo",
     "update_reservation_in_odoo", "update_reservations"}
\* the steps that call the ERP through get_rpc_api or CreateContact
ErpSteps ==
    {"cancel_quotation", "cancel_opportunity", "create_guest_contact", "create_opportunity",
     "create_quotation", "update_opportunity", "check_need_update_quotation",
     "get_quotation_state", "unlock_quotation", "update_quotation", "lock_back_quotation"}
\* the collaborator call that raises in a run, if any; "not_saved" is a save
\* that returns nothing
TaskRaising ==
    {"select_house", "select_reservation", "select_user", "cancel_quotation",
     "create_opportunity", "update_quotation", "save_reservation", "not_saved",
     "select_busy_days", "save_cache"}

\* ReservationSelectMixin.select_reservation: reservation 1 is stored
select_reservation(w, c) ==
    LET ctx == Enter(c, "select_reservation")
    IN  IF ctx.pk <= 0 THEN Failure(ctx, "missed_reservation")
        ELSE IF w.raises = "select_reservation" THEN Failure(ctx, "error")
        ELSE IF ctx.pk # 1 THEN Failure(ctx, "missed_reservation")
        ELSE Success([ctx EXCEPT !.reservation = w.reservation])

\* a step that calls a collaborator inside try/except and fails with the
\* given kind when the call raises
Collaborator(name, failure, w, c) ==
    IF w.raises = name THEN Failure(Enter(c, name), failure) ELSE Success(Enter(c, name))

\* Context of the use cases of the tasks
TaskContext(w) ==
    [house_id |-> w.house_id, pk |-> w.pk, roomtype_id |-> w.roomtype_id, house |-> Null,
     reservation |-> NoRes, trace |-> <<>>, log |-> <<>>]

\* select_user of the three use cases of the ERP: a lookup that raises or
\* finds no user fails with missed_user
InOdoo_select_user(w, c) ==
    LET ctx == Enter(c, "select_user")
    IN  IF w.raises = "select_user" \/ ~w.user THEN Failure(ctx, "missed_user")
        ELSE Success(ctx)

\* check_reservation of the three use cases of the ERP
InOdoo_check_reservation(cancelled_only, w, c) ==
    LET ctx == Enter(c, "check_reservation")
    IN  IF ctx.reservation.house_id # ctx.house THEN Failure(ctx, "missed_reservation")
        ELSE IF ctx.reservation.status = "CLOSE" THEN Failure(ctx, "room_close_reservation")
        ELSE IF cancelled_only /\ ctx.reservation.status # "CANCEL"
             THEN Failure(ctx, "missed_reservation")
        ELSE Success(ctx)

\* CancelReservationInOdoo.execute
CancelReservationInOdoo_execute(w) ==
    LET step(name, c) ==
            CASE name = "select_house" -> select_house(w, c)
              [] name = "select_reservation" -> select_reservation(w, c)
              [] name = "check_reservation" -> InOdoo_check_reservation(TRUE, w, c)
              [] name = "select_user" -> InOdoo_select_user(w, c)
              [] OTHER -> Collaborator(name, "error", w, c)
    IN  flow(Success(TaskContext(w)),
             <<"select_house", "select_reservation", "check_reservation", "select_user",
               "cancel_quotation", "cancel_opportunity">>, step)

\* RegisterReservationInOdoo.execute: save_reservation fails with error when
\* the save raises and with save when it returns nothing
RegisterReservationInOdoo_execute(w) ==
    LET step(name, c) ==
            CASE name = "select_house" -> select_house(w, c)
              [] name = "select_reservation" -> select_reservation(w, c)
              [] name = "select_user" -> InOdoo_select_user(w, c)
              [] name = "check_reservation" -> InOdoo_check_reservation(FALSE, w, c)
              [] name = "create_guest_contact" ->
                     IF w.reservation.guest = NoStr
                     THEN Failure(Enter(c, name), "missed_guest")
                     ELSE Collaborator(name, "error", w, c)
              [] name = "save_reservation" ->
                     IF w.raises = "not_saved" THEN Failure(Enter(c, name), "save")
                     ELSE Collaborator(name, "error", w, c)
              [] OTHER -> Collaborator(name, "error", w, c)
    IN  flow(Success(TaskContext(w)),
             <<"select_house", "select_reservation", "select_user", "check_reservation",
               "create_guest_contact", "create_opportunity", "create_quotation",
               "save_reservation">>, step)

\* UpdateReservationInOdoo.execute
UpdateReservationInOdoo_execute(w) ==
    LET step(name, c) ==
            CASE name = "select_house" -> select_house(w, c)
              [] name = "select_reservation" -> select_reservation(w, c)
              [] name = "check_reservation" -> InOdoo_check_reservation(FALSE, w, c)
              [] name = "select_user" -> InOdoo_select_user(w, c)
              [] OTHER -> Collaborator(name, "error", w, c)
    IN  flow(Success(TaskContext(w)),
             <<"select_house", "select_reservation", "check_reservation", "select_user",
               "update_opportunity", "check_need_update_quotation", "get_quotation_state",
               "unlock_quotation", "update_quotation", "lock_back_quotation">>, step)

\* CalculateOccupancy.execute: without a house id it is for all the houses,
\* without a room type id for all the room types
CalculateOccupancy_execute(w) ==
    LET step(name, c) ==
            CASE name = "select_houses" ->
                     IF w.raises = "select_house" THEN Failure(Enter(c, name), "error")
                     ELSE IF w.house_id = Null THEN Success(Enter(c, name))
                     ELSE IF w.house_id < 0 \/ w.house_id # House.id
                          THEN Failure(Enter(c, name), "missed_house")
                     ELSE Success(Enter(c, name))
              [] name = "select_company_bots" ->
                     IF w.raises = "select_user" THEN Failure(Enter(c, name), "error")
                     ELSE IF ~w.user THEN Failure(Enter(c, name), "missed_user")
                     ELSE Success(Enter(c, name))
              [] name = "select_roomtypes" ->
                     IF w.roomtype_id = Null THEN Success(Enter(c, name))
                     ELSE IF w.roomtype_id \notin HouseRoomTypes
                          THEN Failure(Enter(c, name), "missed_roomtype")
                     ELSE Success(Enter(c, name))
              [] OTHER -> Collaborator(name, "error", w, c)
    IN  flow(Success(TaskContext(w)),
             <<"get_calendar_period", "select_houses", "select_company_bots",
               "select_roomtypes", "populate_roomtypes", "select_busy_days",
               "calculate_occupancy", "save">>, step)

\* UpdateReservationCache.execute
UpdateReservationCache_execute(w) ==
    LET step(name, c) ==
            CASE name = "select_house" -> select_house(w, c)
              [] name = "select_bot_user" ->
                     IF w.raises = "select_user" THEN Failure(Enter(c, name), "error")
                     ELSE IF ~w.user THEN Failure(Enter(c, name), "missed_user")
                     ELSE Success(Enter(c, name))
              [] OTHER -> Collaborator(name, "error", w, c)
    IN  flow(Success(TaskContext(w)),
             <<"select_house", "select_reservations", "select_bot_user", "select_rate_plans",
               "select_payed_amounts", "process_reservations",
               "remove_canceled_reservations", "save_cache">>, step)

\* the end of a run of a task: what the task did after the use case
Finish(r, did) ==
    calc' = [calc EXCEPT !.step = "done", !.ctx = [r.ctx EXCEPT !.log = did],
                         !.result = r.result]
\* self.retry: the task is queued again unless it was retried MaxRetries times
Retry(r, did) ==
    IF calc.given.retries < MaxRetries
    THEN \E e \in TaskRaising \cup {"none"} :
             calc' = [calc EXCEPT !.step = "queued",
                                  !.given = [@ EXCEPT !.retries = @ + 1, !.raises = e],
                                  !.ctx = [r.ctx EXCEPT !.log = Append(did, "retry")],
                                  !.result = r.result]
    ELSE Finish(r, Append(did, "retry"))
Queued(task) == calc.step = "queued" /\ calc.given.task = task
Warned == <<"warning", "notify_warning">>

calculate_occupancy ==
    /\ Queued("calculate_occupancy")
    /\ \E r \in {CalculateOccupancy_execute(calc.given)} :
           IF r.result = "ok" THEN Finish(r, <<>>) ELSE Retry(r, Warned)
    /\ UNCHANGED <<db, pre, last, now>>

cancel_reservation_in_odoo ==
    /\ Queued("cancel_reservation_in_odoo")
    /\ \E r \in {CancelReservationInOdoo_execute(calc.given)} :
           IF r.result = "ok" THEN Finish(r, <<"auto_make_invoice">>)
           ELSE IF r.result = "room_close_reservation" THEN Finish(r, <<>>)
           ELSE IF r.result = "error" THEN Retry(r, Warned)
           ELSE Finish(r, Warned)
    /\ UNCHANGED <<db, pre, last, now>>

register_reservation_in_odoo ==
    /\ Queued("register_reservation_in_odoo")
    /\ \E r \in {RegisterReservationInOdoo_execute(calc.given)} :
           IF r.result = "ok" THEN Finish(r, <<"auto_make_invoice">>)
           ELSE IF r.result = "room_close_reservation" THEN Finish(r, <<>>)
           ELSE IF r.result \in {"error", "save"} THEN Retry(r, Warned)
           ELSE Finish(r, Warned)
    /\ UNCHANGED <<db, pre, last, now>>

update_reservation_in_odoo ==
    /\ Queued("update_reservation_in_odoo")
    /\ \E r \in {UpdateReservationInOdoo_execute(calc.given)} :
           IF r.result = "ok" THEN Finish(r, <<"auto_make_invoice">>)
           ELSE IF r.result = "room_close_reservation" THEN Finish(r, <<>>)
           ELSE IF r.result = "error" THEN Retry(r, Warned)
           ELSE Finish(r, Warned)
    /\ UNCHANGED <<db, pre, last, now>>

update_reservations ==
    /\ Queued("update_reservations")
    /\ \E r \in {UpdateReservationCache_execute(calc.given)} :
           IF r.result = "ok" THEN Finish(r, <<>>) ELSE Retry(r, Warned)
    /\ UNCHANGED <<db, pre, last, now>>

\* the arguments of a task and what the repositories hold for them
TaskWorlds ==
    [task : TaskNames, house_id : {Null, 1, 3}, pk : {Null, 1, 3},
     roomtype_id : {Null, 1, 3},
     reservation : [house_id : {1, 2}, status : {"NEW", "CLOSE", "CANCEL"},
                    guest : {NoStr, "guest"}],
     user : BOOLEAN, raises : TaskRaising \cup {"none"}, retries : {0}]

InitTasks ==
    /\ db = EmptyDb
    /\ pre = EmptyDb
    /\ last = Done("init", Null, FALSE, FALSE, "ok")
    /\ now = 0
    /\ \E w \in TaskWorlds :
           calc = [step |-> "queued", given |-> w, ctx |-> TaskContext(w), result |-> "ok"]

NextTasks ==
    \/ calculate_occupancy
    \/ cancel_reservation_in_odoo
    \/ register_reservation_in_odoo
    \/ update_reservation_in_odoo
    \/ update_reservations

SpecTasks == InitTasks /\ [][NextTasks]_vars

----------------------------------------------------------------------------
(* The quotation part of UpdateReservationInOdoo.execute, step by step, with  *)
(* the quotation of the ERP: its state ("done" is locked, "sale" is not) and  *)
(* its items.  calc.given is what the ERP holds and the call that raises in   *)
(* this run, calc.ctx the Context and the calls made to the ERP, calc.before  *)
(* the state of the quotation when the run began.                             *)

\* the calls to the ERP that can raise, and a quotation that is not found
OdooRaising ==
    {"none", "get_quotation_items", "get_quotation", "missed_quotation", "unlock_quotation",
     "update_quotation_items", "confirm_quotation"}

\* Context of UpdateReservationInOdoo after update_opportunity
OdooContext == [is_need_update_quotation |-> TRUE, is_locked_quotation |-> FALSE, calls |-> <<>>]

\* the use case passes to the next step, or returns the failure
OdooNext(name, ctx, quotation, items) ==
    calc' = [calc EXCEPT !.step = name, !.ctx = ctx, !.quotation = quotation, !.items = items]
OdooFails(ctx) ==
    calc' = [calc EXCEPT !.step = "returned", !.ctx = ctx, !.result = "error"]
Called(ctx, name) == [ctx EXCEPT !.calls = Append(@, name)]

\* UpdateReservationInOdoo.check_need_update_quotation
check_need_update_quotation ==
    /\ calc.step = "check_need_update_quotation"
    /\ IF calc.given.quotation_id = Null \/ calc.given.quotation_id <= 0
       THEN OdooNext("get_quotation_state", [calc.ctx EXCEPT !.is_need_update_quotation = FALSE],
                     calc.quotation, calc.items)
       ELSE IF calc.given.raises = "get_quotation_items"
            THEN OdooFails(Called(calc.ctx, "get_quotation_items"))
       ELSE OdooNext("get_quotation_state",
                     [Called(calc.ctx, "get_quotation_items") EXCEPT
                         !.is_need_update_quotation = calc.items # "updated"],
                     calc.quotation, calc.items)
    /\ UNCHANGED <<db, pre, last, now>>

\* UpdateReservationInOdoo.get_quotation_state
get_quotation_state ==
    /\ calc.step = "get_quotation_state"
    /\ IF ~calc.ctx.is_need_update_quotation
       THEN OdooNext("unlock_quotation", calc.ctx, calc.quotation, calc.items)
       ELSE IF calc.given.raises \in {"get_quotation", "missed_quotation"}
            THEN OdooFails(Called(calc.ctx, "get_quotation"))
       ELSE OdooNext("unlock_quotation",
                     [Called(calc.ctx, "get_quotation") EXCEPT
                         !.is_locked_quotation = calc.quotation = "done"],
                     calc.quotation, calc.items)
    /\ UNCHANGED <<db, pre, last, now>>

\* UpdateReservationInOdoo.unlock_quotation
unlock_quotation ==
    /\ calc.step = "unlock_quotation"
    /\ IF ~calc.ctx.is_need_update_quotation \/ ~calc.ctx.is_locked_quotation
       THEN OdooNext("update_quotation", calc.ctx, calc.quotation, calc.items)
       ELSE IF calc.given.raises = "unlock_quotation"
            THEN OdooFails(Called(calc.ctx, "unlock_quotation"))
       ELSE OdooNext("update_quotation", Called(calc.ctx, "unlock_quotation"), "sale", calc.items)
    /\ UNCHANGED <<db, pre, last, now>>

\* UpdateReservationInOdoo.update_quotation
update_quotation ==
    /\ calc.step = "update_quotation"
    /\ IF ~calc.ctx.is_need_update_quotation
       THEN OdooNext("lock_back_quotation", calc.ctx, calc.quotation, calc.items)
       ELSE IF calc.given.raises = "update_quotation_items"
            THEN OdooFails(Called(calc.ctx, "update_quotation_items"))
       ELSE OdooNext("lock_back_quotation", Called(calc.ctx, "update_quotation_items"),
                     calc.quotation, "updated")
    /\ UNCHANGED <<db, pre, last, now>>

\* UpdateReservationInOdoo.lock_back_quotation and the end of the flow
lock_back_quotation ==
    /\ calc.step = "lock_back_quotation"
    /\ IF ~calc.ctx.is_need_update_quotation \/ ~calc.ctx.is_locked_quotation
       THEN calc' = [calc EXCEPT !.step = "returned", !.result = "ok"]
       ELSE IF calc.given.raises = "confirm_quotation"
            THEN OdooFails(Called(calc.ctx, "confirm_quotation"))
       ELSE calc' = [calc EXCEPT !.step = "returned", !.result = "ok",
                                 !.ctx = Called(calc.ctx, "confirm_quotation"),
                                 !.quotation = "done"]
    /\ UNCHANGED <<db, pre, last, now>>

\* the task update_reservation_in_odoo after a failure with error: self.retry
\* runs the use case again, with the quotation as the failed run left it
retry_update_reservation_in_odoo ==
    /\ calc.step = "returned"
    /\ calc.result = "error"
    /\ calc.given.retries < MaxRetries
    /\ \E e \in OdooRaising :
           calc' = [calc EXCEPT !.step = "check_need_update_quotation",
                                !.given = [@ EXCEPT !.retries = @ + 1, !.raises = e],
                                !.ctx = OdooContext, !.result = NoStr,
                                !.before = calc.quotation]
    /\ UNCHANGED <<db, pre, last, now>>

InitOdoo ==
    /\ db = EmptyDb
    /\ pre = EmptyDb
    /\ last = Done("init", Null, FALSE, FALSE, "ok")
    /\ now = 0
    /\ \E quotation_id \in {Null, 1}, quotation \in {"done", "sale"},
          items \in {"stale", "updated"}, e \in OdooRaising :
           calc = [step |-> "check_need_update_quotation",
                   given |-> [quotation_id |-> quotation_id, raises |-> e, retries |-> 0],
                   ctx |-> OdooContext, result |-> NoStr,
                   quotation |-> quotation, before |-> quotation, items |-> items]

NextOdoo ==
    \/ check_need_update_quotation
    \/ get_quotation_state
    \/ unlock_quotation
    \/ update_quotation
    \/ lock_back_quotation
    \/ retry_update_reservation_in_odoo

SpecOdoo == InitOdoo /\ [][NextOdoo]_vars

----------------------------------------------------------------------------
(* accept and save of one reservation by two requests at once: no transaction,
   lock or version check surrounds either of them, so their statements
   interleave; each of them is split where it passes from the reservation row
   to the room rows *)

\* ReservationsRepoOrm.accept up to model.save: the reservation row
accept_reservation_row(d, t) ==
    LET model == d.res
    IN  [d EXCEPT !.res = [model EXCEPT !.checkin_original = model.checkin,
                                        !.checkout_original = model.checkout,
                                        !.price_accepted = model.price,
                                        !.netto_price_accepted = model.netto_price,
                                        !.is_verified = TRUE, !.verified_at = t]]

\* ReservationsRepoOrm.accept from the loop over model.rooms.active() on
accept_room_rows(d, price_ids, t) ==
    LET active == ActiveRoomIds(d)
    IN  [d EXCEPT
            !.rooms = [i \in DOMAIN d.rooms |->
                          IF i \in active THEN accept_room(d.rooms[i], t) ELSE d.rooms[i]],
            !.days = {IF x.reservation_room_id \in active THEN accept_day(x, price_ids) ELSE x
                      : x \in d.days}]

\* ReservationsRepoOrm._update_reservation up to model.save, without accepted
\* prices: the reservation row
update_reservation_row(d, reservation) ==
    [d EXCEPT !.res = [d.res EXCEPT !.status = reservation.status,
                                    !.checkin = reservation.checkin,
                                    !.checkout = reservation.checkout,
                                    !.tax = reservation.tax,
                                    !.guest_name = reservation.guest_name,
                                    !.close_reason = reservation.close_reason,
                                    !.price = reservation.price,
                                    !.netto_price = reservation.netto_price]]

\* ReservationsRepoOrm._update_reservation from existed_external_ids on
update_reservation_rooms(d, reservation, t) ==
    LET existed_external_ids == {d.rooms[i].external_id : i \in DOMAIN d.rooms}
        r == UpdateRooms(d, existed_external_ids, reservation.rooms, FALSE, FALSE)
        processed_external_ids == {reservation.rooms[i].external_id : i \in DOMAIN reservation.rooms}
        deleted_external_ids ==
            SelectSeq(Col(d.rooms, "external_id"), LAMBDA x : x \notin processed_external_ids)
    IN  DeleteRooms(r.db, deleted_external_ids, t)

\* the time stamp of both requests
RaceTime == 1

\* a stored reservation that has not been accepted: the first snapshot loaded
Loaded == save(EmptyDb, Reservation_load(OtaReservation(BaseParams)), FALSE, RaceTime).db

\* the two requests: accept with the ticked days, and save of the merge of a
\* snapshot into the stored reservation; a and s say where each of them is
Race(start, data, price_ids) ==
    [step |-> "race", start |-> start, data |-> data, price_ids |-> price_ids,
     reservation |-> Reservation_update(get(start), data).entity, a |-> "row", s |-> "row"]

RaceStep(d) ==
    /\ db' = d
    /\ now' = now + 1
    /\ UNCHANGED <<pre, last>>

\* accept: model = filter(id=pk)[0], the early return, model.save
AcceptRow ==
    /\ calc.a = "row"
    /\ IF db.res.is_verified
       THEN /\ calc' = [calc EXCEPT !.a = "done"]
            /\ RaceStep(db)
       ELSE /\ calc' = [calc EXCEPT !.a = "rooms"]
            /\ RaceStep(accept_reservation_row(db, RaceTime))

\* accept: the rooms and their days
AcceptRooms ==
    /\ calc.a = "rooms"
    /\ calc' = [calc EXCEPT !.a = "done"]
    /\ RaceStep(accept_room_rows(db, calc.price_ids, RaceTime))

\* save: the reservation row (the whole of it for a cancellation)
SaveRow ==
    /\ calc.s = "row"
    /\ IF calc.reservation.status = "CANCEL"
       THEN /\ calc' = [calc EXCEPT !.s = "done"]
            /\ RaceStep(cancel_reservation(db, calc.reservation).db)
       ELSE /\ calc' = [calc EXCEPT !.s = "rooms"]
            /\ RaceStep(update_reservation_row(db, calc.reservation))

\* save: the rooms and their days
SaveRooms ==
    /\ calc.s = "rooms"
    /\ calc' = [calc EXCEPT !.s = "done"]
    /\ RaceStep(update_reservation_rooms(db, calc.reservation, RaceTime))

\* the reservation before the two requests: loaded, or loaded and accepted
RaceStarts == {Loaded, accept(Loaded, {}, RaceTime)}

InitRace ==
    /\ db \in RaceStarts
    /\ pre = db
    /\ last = Done("race", Null, FALSE, FALSE, "ok")
    /\ now = 0
    /\ \E data \in Snapshots : \E price_ids \in {{}, FormDayIds(db)} :
           calc = Race(db, data, price_ids)

NextRace ==
    \/ AcceptRow
    \/ AcceptRooms
    \/ SaveRow
    \/ SaveRooms

SpecRace == InitRace /\ [][NextRace]_vars

----------------------------------------------------------------------------
Init ==
    /\ db = EmptyDb
    /\ pre = EmptyDb
    /\ last = Done("init", Null, FALSE, FALSE, "ok")
    /\ now = 0
    /\ calc = Null

Next ==
    \/ CreateFromSnapshot
    \/ MergeSnapshot
    \/ AcceptReservationChanges
    \/ CancelReservation
    \/ CreateReservation
    \/ CreateRoomClose
    \/ UpdateRoomClose
    \/ MoveReservation
    \/ UpdateReservationPrices

Spec == Init /\ [][Next]_vars

----------------------------------------------------------------------------
(* Properties *)

MergeEnabled == Stored /\ is_ota(get(db))
Merged == last.op = "merge"
Accepted == last.op = "accept" /\ last.result = "ok"

\* the rows of a day, by id, before and after the last operation
DayPairs == {<<x, y>> \in pre.days \X db.days : x.id = y.id}
ExtsOf(rooms) == {rooms[i].external_id : i \in DOMAIN rooms}
DaysOf(prices) == {prices[i].day : i \in DOMAIN prices}

\* a mapped scalar field of the reservation, of a matched room or of a matched
\* day differs between the aggregate and the snapshot
ScalarDiff(e, data) ==
    \/ \E f \in {"checkin", "checkout", "status", "price", "netto_price", "tax", "guest_name"} :
           e[f] # data[f]
    \/ \E i \in DOMAIN e.rooms, j \in DOMAIN data.rooms :
           /\ e.rooms[i].external_id = data.rooms[j].external_id
           /\ \/ \E f \in {"checkin", "checkout", "channel_rate_id", "rate_plan_id", "policy",
                           "guest_name", "price", "netto_price", "tax"} :
                      e.rooms[i][f] # data.rooms[j][f]
              \/ \E k \in DOMAIN e.rooms[i].day_prices, l \in DOMAIN data.rooms[j].day_prices :
                     /\ e.rooms[i].day_prices[k].day = data.rooms[j].day_prices[l].day
                     /\ \/ e.rooms[i].day_prices[k].price_changed # data.rooms[j].day_prices[l].price
                        \/ e.rooms[i].day_prices[k].tax # data.rooms[j].day_prices[l].tax
                        \/ e.rooms[i].day_prices[k].currency # data.rooms[j].day_prices[l].currency

\* the differences that Reservation.update reports: the stay of the
\* reservation, the stay or the channel rate of a matched room, the price of a
\* matched day, or a room or a day of the snapshot that has no match
KeyDiff(e, data) ==
    \/ e.checkin # data.checkin
    \/ e.checkout # data.checkout
    \/ \E j \in DOMAIN data.rooms :
           \/ data.rooms[j].external_id \notin ExtsOf(e.rooms)
           \/ \E i \in DOMAIN e.rooms :
                  /\ e.rooms[i].external_id = data.rooms[j].external_id
                  /\ \/ e.rooms[i].checkin # data.rooms[j].checkin
                     \/ e.rooms[i].checkout # data.rooms[j].checkout
                     \/ e.rooms[i].channel_rate_id # data.rooms[j].channel_rate_id
                     \/ \E l \in DOMAIN data.rooms[j].day_prices :
                            \/ data.rooms[j].day_prices[l].day \notin DaysOf(e.rooms[i].day_prices)
                            \/ \E k \in DOMAIN e.rooms[i].day_prices :
                                   /\ e.rooms[i].day_prices[k].day = data.rooms[j].day_prices[l].day
                                   /\ e.rooms[i].day_prices[k].price_changed
                                          # data.rooms[j].day_prices[l].price

\* every mapped scalar field of the merged aggregate has the snapshot's value
CarriesSnapshot(e, data) ==
    /\ \A f \in {"checkin", "checkout", "status", "price", "netto_price", "tax", "guest_name"} :
           e[f] = data[f]
    /\ Len(e.rooms) = Len(data.rooms)
    /\ \A j \in DOMAIN data.rooms :
           /\ \A f \in {"external_id", "checkin", "checkout", "channel_rate_id", "rate_plan_id",
                        "policy", "guest_name", "price", "netto_price", "tax"} :
                  e.rooms[j][f] = data.rooms[j][f]
           /\ Len(e.rooms[j].day_prices) = Len(data.rooms[j].day_prices)
           /\ \A l \in DOMAIN data.rooms[j].day_prices :
                  /\ e.rooms[j].day_prices[l].day = data.rooms[j].day_prices[l].day
                  /\ e.rooms[j].day_prices[l].price_changed = data.rooms[j].day_prices[l].price
                  /\ e.rooms[j].day_prices[l].tax = data.rooms[j].day_prices[l].tax
                  /\ e.rooms[j].day_prices[l].currency = data.rooms[j].day_prices[l].currency

\* C1 as stated: whenever a snapshot differs from the existing aggregate in a
\* mapped scalar field, the merge reports changed = true
C1_AnyDifferenceIsReported ==
    Merged => (ScalarDiff(get(pre), last.arg) => last.merge_changed)

\* C1 amended: a merge overwrites every mapped scalar field with the
\* snapshot's value, and it reports changed = true exactly when the stay of the
\* reservation, the stay or the channel rate of a matched room or the price of
\* a matched day differs, or when the snapshot has a room or a day without a
\* match; a difference in another mapped field alone is not reported
C1_KeyDifferenceIsReported ==
    MergeEnabled =>
        \A e \in {get(db)} : \A data \in Snapshots :
            \A m \in {Reservation_update(e, data)} :
                /\ CarriesSnapshot(m.entity, data)
                /\ m.changed <=> KeyDiff(e, data)

\* a merge has overwritten a status and a price that differed and has
\* reported no change
C1_Witness ==
    /\ Merged
    /\ ~last.merge_changed
    /\ get(pre).status # last.arg.status
    /\ db.res.status = last.arg.status

\* C2: merging a snapshot into an aggregate that already carries it reports
\* changed = false for the reservation, for every room and for every day, and
\* leaves the aggregate as it is; so the second of two merges of the same
\* snapshot reports no change
C2_MergeIsIdempotent ==
    MergeEnabled =>
        \A e \in {get(db)} : \A data \in Snapshots :
            \A once \in {Reservation_update(e, data).entity} :
                \A twice \in {Reservation_update(once, data)} :
                    /\ ~twice.changed
                    /\ twice.entity = once
                    /\ \A j \in DOMAIN data.rooms :
                           /\ ~MergeRoom(once, data.rooms[j]).changed
                           /\ \A l \in DOMAIN data.rooms[j].day_prices :
                                  ~MergeDay(once.rooms[j], data.rooms[j].day_prices[l]).changed

\* a merge has reported a change, and the same snapshot merged again into its
\* result reports none
C2_Witness ==
    /\ Merged
    /\ last.merge_changed
    /\ ~Reservation_update(Reservation_update(get(pre), last.arg).entity, last.arg).changed

AcceptedUnverified == Accepted /\ ~pre.res.is_verified

\* accept has committed the reservation level and the level of every active room
CommittedAbove ==
    /\ db.res.is_verified
    /\ db.res.price_accepted = pre.res.price
    /\ db.res.netto_price_accepted = pre.res.netto_price
    /\ \A i \in ActiveRoomIds(pre) :
           /\ db.rooms[i].channel_rate_id = pre.rooms[i].channel_rate_id_changed
           /\ db.rooms[i].price_accepted = pre.rooms[i].price
           /\ db.rooms[i].netto_price_accepted = pre.rooms[i].netto_price

CommittedDay(x) ==
    [x EXCEPT !.price_original = x.price_changed, !.price_accepted = x.price_changed]

\* C3 as stated: after accept on an unverified reservation without a day
\* filter, every day of every room has price_original and price_accepted
\* equal to price_changed
C3_NoFilterCommitsEveryDay ==
    AcceptedUnverified /\ last.arg = {} =>
        \A y \in db.days :
            y.reservation_room_id \in ActiveRoomIds(db) =>
                y.price_original = y.price_changed /\ y.price_accepted = y.price_changed

\* C3 amended: accept on an unverified reservation without a day filter (none
\* or empty) commits no day: every day record keeps its price_original and
\* its price_accepted; the reservation becomes verified, and the accepted
\* prices of the reservation and of its rooms are committed
C3_NoFilterCommitsNoDay ==
    AcceptedUnverified /\ last.arg = {} =>
        /\ db.days = pre.days
        /\ CommittedAbove

\* accept without a filter has verified a reservation and has left a day with
\* a proposed price that is neither its accepted nor its original price
C3_Witness ==
    /\ AcceptedUnverified
    /\ last.arg = {}
    /\ db.res.is_verified
    /\ \E y \in db.days :
           /\ y.reservation_room_id \in ActiveRoomIds(db)
           /\ y.price_original # y.price_changed
           /\ y.price_accepted # y.price_changed

\* C4: accept on an unverified reservation with a non-empty day filter commits
\* price_original and price_accepted of the days in the filter and leaves
\* every other day record as it is; the accepted prices of the reservation and
\* the channel rate and accepted prices of every room are committed whatever
\* the filter is
C4_FilterCommitsListedDays ==
    AcceptedUnverified /\ last.arg # {} =>
        /\ {x.id : x \in db.days} = {x.id : x \in pre.days}
        /\ \A p \in DayPairs :
               p[2] = IF p[1].id \in last.arg THEN CommittedDay(p[1]) ELSE p[1]
        /\ CommittedAbove

\* accept with a filter has committed one day and has left another, pending
\* one as it was, and has committed a pending channel rate or room price
C4_Witness ==
    /\ AcceptedUnverified
    /\ \E p \in DayPairs, q \in DayPairs :
           /\ p[1].id \in last.arg /\ p[1].price_original # p[1].price_changed
           /\ p[2].price_original = p[1].price_changed
           /\ q[1].id \notin last.arg /\ q[2].price_original # q[2].price_changed
    /\ \E i \in ActiveRoomIds(pre) :
           /\ pre.rooms[i].price_accepted # pre.rooms[i].price
           /\ db.rooms[i].price_accepted = pre.rooms[i].price

\* C5: accept on a verified reservation changes nothing, verified_at
\* included, whatever the filter; so a second accept, with the same filter or
\* another, leaves the state of the first
C5_AcceptVerifiedIsNoOp ==
    /\ Stored /\ db.res.is_verified =>
           \A price_ids \in PriceIdFilters : accept(db, price_ids, now + 1) = db
    /\ last.op = "accept" /\ pre.res.is_verified => db = pre

\* accept has run with a filter right after the accept that verified the
\* reservation, while a day had a proposed price that was not committed
C5_Witness ==
    /\ last.op = "accept" /\ last.result = "ok"
    /\ pre.res.is_verified
    /\ pre.res.verified_at = now - 1
    /\ last.arg # {}
    /\ \E x \in pre.days : x.id \in last.arg /\ x.price_original # x.price_changed

\* C6: an operation other than accept (a save with or without accepted
\* prices, a cancellation, a move, an update of a room close, an update of
\* prices) leaves price_original of every existing day record as it is
C6_OnlyAcceptSetsPriceOriginal ==
    last.op # "accept" => \A p \in DayPairs : p[2].price_original = p[1].price_original

\* an operation other than accept has changed the proposed or the accepted
\* price of a day whose price_original differs from it
C6_Witness ==
    /\ last.op \in {"merge", "prices"}
    /\ \E p \in DayPairs :
           /\ \/ p[2].price_changed # p[1].price_changed
              \/ p[2].price_accepted # p[1].price_accepted
           /\ p[2].price_original = p[1].price_original
           /\ p[2].price_original # p[2].price_changed
           /\ p[2].price_original # p[2].price_accepted

ResPrices(r) == <<r.price, r.price_accepted, r.netto_price, r.netto_price_accepted>>
DayPrices3(x) == <<x.price_changed, x.price_accepted, x.price_original>>

\* C7: once the stored status is CANCEL, no operation changes a price field
\* of the reservation, of a room or of a day
C7_CancelIsTerminalForPrices ==
    pre.res # NoRes /\ pre.res.status = "CANCEL" =>
        /\ ResPrices(db.res) = ResPrices(pre.res)
        /\ \A i \in DOMAIN pre.rooms : ResPrices(db.rooms[i]) = ResPrices(pre.rooms[i])
        /\ \A p \in DayPairs : DayPrices3(p[2]) = DayPrices3(p[1])

ResBaseline(r) ==
    <<r.price_accepted, r.netto_price_accepted, r.checkin_original, r.checkout_original>>
RoomBaseline(r) ==
    <<r.price_accepted, r.netto_price_accepted, r.checkin_original, r.checkout_original,
      r.rate_plan_id_original, r.policy_original>>

\* C8: the merge of a snapshot and the save without accepted prices leave the
\* accepted and baseline fields of every existing record as they are:
\* price_accepted, netto_price_accepted, the original stay, the original rate
\* plan and policy, and price_accepted and price_original of the days
C8_MergeKeepsAccepted ==
    Merged =>
        /\ ResBaseline(db.res) = ResBaseline(pre.res)
        /\ \A i \in DOMAIN pre.rooms : RoomBaseline(db.rooms[i]) = RoomBaseline(pre.rooms[i])
        /\ \A p \in DayPairs :
               /\ p[2].price_accepted = p[1].price_accepted
               /\ p[2].price_original = p[1].price_original

\* a merge has stored another price, stay, rate plan and day price than the
\* accepted ones
C8_Witness ==
    /\ Merged /\ last.save_changed
    /\ db.res # pre.res
    /\ \E i \in DOMAIN pre.rooms :
           /\ db.rooms[i] # pre.rooms[i]
           /\ \/ db.rooms[i].price # db.rooms[i].price_accepted
              \/ db.rooms[i].checkout # db.rooms[i].checkout_original
              \/ db.rooms[i].rate_plan_id # db.rooms[i].rate_plan_id_original
    /\ \E p \in DayPairs : p[2].price_changed # p[1].price_changed

\* the active rooms that the merged snapshot does not name
Dropped == {i \in ActiveRoomIds(pre) : pre.rooms[i].external_id \notin ExtsOf(last.arg.rooms)}

\* the room row i is marked deleted, is the same row, is read with the deleted
\* rooms and is not read with the active ones
SoftDeleted(i) ==
    /\ i \in DOMAIN db.rooms
    /\ db.rooms[i].is_deleted
    /\ db.rooms[i].deleted_at # Null
    /\ db.rooms[i].id = pre.rooms[i].id
    /\ db.rooms[i].external_id = pre.rooms[i].external_id
    /\ \E j \in DOMAIN model_to_reservation(db, TRUE).rooms :
           model_to_reservation(db, TRUE).rooms[j].id = i
    /\ \A j \in DOMAIN get(db).rooms : get(db).rooms[j].id # i

CalcDone == calc.step = "check_availability_discounts" /\ calc.result = "ok"
InventoryOf(day) ==
    IF calc.given.occupancies[day] = Absent THEN 0 ELSE calc.given.occupancies[day]
InWindow(x, day) == x.start_date <= day /\ day <= x.end_date
Discounted(day, eligible) ==
    IF eligible = {} THEN calc.ctx.prices[day] = calc.given.prices[day]
    ELSE calc.ctx.prices[day] * 100
             = calc.given.prices[day] * (100 - Max({x.discount : x \in eligible}))

\* C10 as stated: a discount is eligible for a day exactly when the day is in
\* its window and the inventory of the day is at most its free_rooms, and the
\* highest eligible discount is applied to the price of the day
C10_EligibleAtMostThreshold ==
    CalcDone =>
        \A day \in Dates :
            calc.given.prices[day] # Absent =>
                Discounted(day, {x \in Range(calc.given.discounts) :
                                    InWindow(x, day) /\ InventoryOf(day) <= x.free_rooms})

\* C10 amended: a discount is eligible for a day exactly when the day is in
\* its window and the inventory of the day is at least its free_rooms (an
\* absent inventory counts as 0); the highest eligible discount is applied as
\* price * (1 - pct / 100), and a day without an eligible discount keeps its
\* price
C10_EligibleAtLeastThreshold ==
    CalcDone =>
        \A day \in Dates :
            calc.given.prices[day] # Absent =>
                Discounted(day, {x \in Range(calc.given.discounts) :
                                    InWindow(x, day) /\ x.free_rooms <= InventoryOf(day)})

\* two discounts of different percentages were eligible for a day and the
\* higher one, listed second, was applied; on another day of the window the
\* inventory was below the threshold and the price was kept
C10_Witness ==
    /\ CalcDone
    /\ Len(calc.given.discounts) = 2
    /\ calc.given.discounts[1].discount < calc.given.discounts[2].discount
    /\ \A i \in {1, 2} : /\ InWindow(calc.given.discounts[i], 1)
                         /\ calc.given.discounts[i].free_rooms <= InventoryOf(1)
    /\ calc.given.prices[1] # Absent
    /\ calc.ctx.prices[1] * 100 = calc.given.prices[1] * (100 - calc.given.discounts[2].discount)
    /\ \E day \in Dates :
           /\ calc.given.prices[day] # Absent
           /\ \A i \in {1, 2} : /\ InWindow(calc.given.discounts[i], day)
                                /\ calc.given.discounts[i].free_rooms > InventoryOf(day)
           /\ calc.ctx.prices[day] = calc.given.prices[day]

----------------------------------------------------------------------------
(* The price calculation of a new reservation (SpecResolve).                *)

ResolveDone == calc.step = "execute"
\* the request names the house, a room type and a rate plan of the house, and
\* no repository call raises
Served(w) ==
    /\ w.house_id = House.id /\ w.roomtype_id \in HouseRoomTypes /\ w.plan_id \in RatePlans
    /\ w.raises = "none"
StayDays(w) == Range(get_days_for_period(w.start_date, w.end_date, TRUE))

\* C11: a day without a base price is never discounted and stays absent in
\* the result, and it does not make the calculation fail, whatever discounts
\* and restrictions cover it
C11_UnpricedDayStaysAbsent ==
    ResolveDone /\ Served(calc.given) =>
        /\ calc.result = "ok"
        /\ \A x \in StayDays(calc.given) :
               calc.given.source[x] = Absent => calc.ctx.prices[x] = Absent

\* the price of a day after the last-minute, the availability and the
\* length-of-stay discounts of the context, in this order
AfterDiscounts(w, ctx, x) ==
    LET a == apply_last_minute_discount(ctx.last_minute, x, w.source[x]).value
        b == apply_availability_discount(ctx.discounts, x, a, ctx.occupancies[x]).value
    IN  apply_los_discount(ctx.los, x, b, w.end_date - w.start_date).value

\* C12: in a result with a rate, the price of a day with a min-price
\* restriction is the larger of the restriction and the price after the three
\* discounts, and the price of a day without one is the price after the
\* three discounts
C12_FloorAfterAllDiscounts ==
    ResolveDone /\ calc.result = "ok" /\ calc.ctx.rate # Null =>
        \A x \in StayDays(calc.given) :
            calc.ctx.prices[x] =
                IF x \in DOMAIN calc.given.restrictions
                THEN Max({AfterDiscounts(calc.given, calc.ctx, x), calc.given.restrictions[x]})
                ELSE AfterDiscounts(calc.given, calc.ctx, x)

\* a result where the discounts brought a day below its restriction and the
\* day has the restricted price, and another day keeps its discounted price
C12_Witness ==
    /\ ResolveDone /\ calc.result = "ok" /\ calc.ctx.rate # Null
    /\ \E x \in StayDays(calc.given) :
           /\ x \in DOMAIN calc.given.restrictions
           /\ AfterDiscounts(calc.given, calc.ctx, x) < calc.given.source[x]
           /\ AfterDiscounts(calc.given, calc.ctx, x) < calc.given.restrictions[x]
           /\ calc.ctx.prices[x] = calc.given.restrictions[x]
    /\ \E y \in StayDays(calc.given) :
           /\ y \notin DOMAIN calc.given.restrictions
           /\ calc.ctx.prices[y] # Absent
           /\ calc.ctx.prices[y] < calc.given.source[y]

\* the occupancies of the candidate rates, and the occupancy of the selected one
Occupancies(w) == {w.rates[i].occupancy : i \in DOMAIN w.rates}
SelectedOccupancy(w, ctx) ==
    IF HasWith(w.rates, "id", ctx.rate) THEN LastWith(w.rates, "id", ctx.rate).occupancy
    ELSE Absent
\* k is the occupancy closest to the guest count g: g itself, else the
\* smallest above g, else the largest below g
Closest(S, g, k) ==
    /\ k \in S
    /\ g \in S => k = g
    /\ (g \notin S /\ \E y \in S : y > g) => k > g /\ \A y \in S : y > g => k <= y
    /\ (\A y \in S : y < g) => \A y \in S : y <= k

\* C13: a request without a rate id and with candidate rates gets a rate, and
\* the occupancy of that rate is the guest count, else the smallest occupancy
\* above it, else the largest below it
C13_RateByGuestCount ==
    ResolveDone /\ calc.result = "ok" /\ calc.given.rate_id = Null
               /\ calc.given.rates # <<>> =>
        /\ calc.ctx.rate # Null
        /\ Closest(Occupancies(calc.given), calc.given.guest_count,
                   SelectedOccupancy(calc.given, calc.ctx))

\* a request without a rate id whose candidates have an occupancy below and
\* one above the guest count, and the one above is selected
C13_Witness ==
    /\ ResolveDone /\ calc.result = "ok" /\ calc.given.rate_id = Null
    /\ calc.given.guest_count \notin Occupancies(calc.given)
    /\ \E y \in Occupancies(calc.given) : y < calc.given.guest_count
    /\ SelectedOccupancy(calc.given, calc.ctx) > calc.given.guest_count

\* C14: a request with the id of a candidate rate gets that rate whatever the
\* guest count is, and a request with an id of no candidate gets the rate the
\* guest count selects
C14_RateById ==
    ResolveDone /\ calc.result = "ok" /\ calc.given.rate_id # Null
               /\ calc.given.rates # <<>> =>
        IF HasWith(calc.given.rates, "id", calc.given.rate_id)
        THEN calc.ctx.rate = calc.given.rate_id
        ELSE /\ calc.ctx.rate # Null
             /\ Closest(Occupancies(calc.given), calc.given.guest_count,
                        SelectedOccupancy(calc.given, calc.ctx))

\* a request with the id of a candidate rate while another candidate has the
\* occupancy of the guest count, and the rate of the id is selected
C14_Witness ==
    /\ ResolveDone /\ calc.result = "ok" /\ calc.given.rate_id # Null
    /\ calc.ctx.rate = calc.given.rate_id
    /\ SelectedOccupancy(calc.given, calc.ctx) # calc.given.guest_count
    /\ calc.given.guest_count \in Occupancies(calc.given)

\* the repositories hold no discount and no min-price restriction
NoRules(w) ==
    /\ w.last_minute = <<>> /\ w.availability = <<>> /\ w.los = <<>>
    /\ w.restrictions = <<>>

\* C15: without discounts and restrictions the prices of a result are those
\* of the days from start_date to the day before end_date and of no other
\* day, and with a rate each is the price the source has for the day
C15_RawPricesOfThePeriod ==
    ResolveDone /\ calc.result = "ok" /\ NoRules(calc.given) =>
        /\ DOMAIN calc.ctx.prices =
               {x \in Dates : calc.given.start_date <= x /\ x < calc.given.end_date}
        /\ calc.ctx.rate # Null =>
               \A x \in DOMAIN calc.ctx.prices : calc.ctx.prices[x] = calc.given.source[x]

\* a result without discounts and restrictions for a stay that ends before
\* the last day the source has a price for
C15_Witness ==
    /\ ResolveDone /\ calc.result = "ok" /\ NoRules(calc.given)
    /\ calc.ctx.rate # Null
    /\ calc.given.end_date \in Dates
    /\ calc.given.source[calc.given.end_date] # Absent
    /\ \A x \in DOMAIN calc.ctx.prices : calc.ctx.prices[x] \in CalcPrices

----------------------------------------------------------------------------
(* The background tasks (SpecTasks).                                        *)

\* a run of a task has ended: calc.result is the result of its use case and
\* calc.ctx.log what the task did after it
TaskRan == calc.ctx.log # <<>> \/ calc.step = "done"
Retried == "retry" \in Range(calc.ctx.log)
\* the failures of a validation: a missing or unknown id, a busy room
ValidationFailures ==
    {"missed_house", "missed_reservation", "missed_room", "missed_roomtype",
     "missed_rateplan", "missed_rate", "busy_room"}

\* C16: a task whose use case failed in a validation does not retry; a task
\* retries after a failure of the kind error (or save) only
C16_ValidationFailureIsNotRetried ==
    TaskRan /\ Retried => calc.result \in {"error", "save"}

\* a task of the ERP ended its run for a stored room-close reservation of the
\* requested house, and no collaborator call raised
RoomCloseRun ==
    /\ calc.step = "done"
    /\ calc.given.task \in {"cancel_reservation_in_odoo", "register_reservation_in_odoo",
                            "update_reservation_in_odoo"}
    /\ calc.given.house_id = House.id /\ calc.given.pk = 1
    /\ calc.given.reservation.house_id = House.id
    /\ calc.given.reservation.status = "CLOSE"
    /\ calc.given.raises = "none"

\* C18: a task of the ERP run for a room-close reservation calls no step of
\* the ERP, logs and notifies no warning and does not retry
C18_RoomCloseIsNormal ==
    RoomCloseRun =>
        /\ Range(calc.ctx.trace) \cap ErpSteps = {}
        /\ calc.ctx.log = <<>>

----------------------------------------------------------------------------
(* The flow of the steps of a use case (SpecResolve).                       *)

FlowDone == calc.step \in {"execute", "create"}
StepsOf(w) == IF w.usecase = "create" THEN CreateSteps ELSE CalculateSteps
\* the step fails for the request: the id it looks up is missing or unknown,
\* or its repository call fails
FailsAt(w, name) ==
    \/ name = "select_house" /\ (w.house_id # House.id \/ w.raises = "select_house")
    \/ name = "select_room_type"
           /\ (w.roomtype_id \notin HouseRoomTypes \/ w.raises = "select_room_type")
    \/ name = "select_rate_plan" /\ (w.plan_id \notin RatePlans \/ w.raises = "select_rate_plan")
    \/ name = "select_rate" /\ (~HasWith(w.rates, "id", w.rate_id) \/ w.raises = "select_rates")
    \/ name = "save_reservation" /\ w.raises \in {"save_reservation", "not_saved"}
    \/ name = "accept_reservation" /\ w.raises \in {"accept_reservation", "not_accepted"}
    \/ name \in {"select_rates", "select_price_restrictions", "select_daily_prices",
                 "select_discounts", "select_occupancies", "select_cancellation_policy"}
           /\ w.raises = name

\* C17: the steps of a use case are called in the order of its flow; a step
\* that fails is the last step called and the result is a failure; a result
\* without failure has called every step.  A missing house, room type or
\* rate plan leaves the rates and the prices unselected, and a failed save
\* leaves accept and the change log uncalled
C17_FirstFailureEndsTheFlow ==
    FlowDone =>
        \A t \in {calc.ctx.trace} : \A w \in {calc.given} :
            /\ Len(t) \in 1 .. Len(StepsOf(w))
            /\ t = SubSeq(StepsOf(w), 1, Len(t))
            /\ \A i \in DOMAIN t : FailsAt(w, t[i]) => i = Len(t) /\ calc.result # "ok"
            /\ calc.result = "ok" => Len(t) = Len(StepsOf(w))
            /\ calc.result \in {"missed_house", "missed_roomtype", "missed_rateplan"} =>
                   Range(t) \cap {"select_rates", "select_rate", "select_daily_prices"} = {}
            /\ FailsAt(w, "save_reservation") =>
                   Range(t) \cap {"accept_reservation", "write_changelog"} = {}

\* a creation whose save returned nothing after the six steps before it
\* succeeded: accept_reservation and write_changelog were not called
C17_Witness ==
    /\ FlowDone
    /\ calc.given.usecase = "create"
    /\ calc.result = "save"
    /\ calc.ctx.trace = SubSeq(CreateSteps, 1, 7)

----------------------------------------------------------------------------
(* The stays of the stored reservation (Spec).                              *)

\* the last operation was a workflow that builds the rooms of a reservation
\* from a period, and it saved its reservation
Produced == last.op \in {"create", "close", "reclose", "prices"} /\ last.result = "ok"
\* the days from checkin to the day before checkout
Nights(x) == {day \in 1 .. MaxDay + 1 : x.checkin <= day /\ day < x.checkout}

\* C19: after the creation of a reservation, the creation or the update of a
\* room close and the update of the prices, every room of the reservation
\* has one day record for each night of its stay and no other day record
C19_OneDayRecordPerNight ==
    Produced =>
        \A e \in {get(db)} : \A i \in DOMAIN e.rooms :
            /\ Len(e.rooms[i].day_prices) = get_nights(e.rooms[i])
            /\ DaysOf(e.rooms[i].day_prices) = Nights(e.rooms[i])

\* C20: the stored reservation and every stored room of it have a checkout
\* after the checkin
C20_CheckoutAfterCheckin ==
    Stored =>
        /\ db.res.checkin < db.res.checkout
        /\ \A i \in DOMAIN db.rooms : db.rooms[i].checkin < db.rooms[i].checkout

\* the room and the day of the aggregate e that a snapshot room and a snapshot
\* day are merged into
MatchedRoom(e, room_data) == LastWith(e.rooms, "external_id", room_data.external_id)
MatchedDay(room, price_data) == LastWith(room.day_prices, "day", price_data.day)

\* the snapshot room carries the proposed values of the room: the stay, the
\* channel rate, and for each of its days a day of the room with that proposed
\* price
SameAsProposed(room, room_data) ==
    /\ room.checkin = room_data.checkin
    /\ room.checkout = room_data.checkout
    /\ room.channel_rate_id = room_data.channel_rate_id
    /\ \A l \in DOMAIN room_data.day_prices :
           /\ HasWith(room.day_prices, "day", room_data.day_prices[l].day)
           /\ MatchedDay(room, room_data.day_prices[l]).price_changed
                  = room_data.day_prices[l].price

\* C21: a day whose proposed price is the snapshot's price is not reported as
\* changed, and a room whose proposed values are the snapshot's is not reported
\* as changed, whatever the accepted prices of the day and of the room are
C21_ChangedIgnoresAccepted ==
    MergeEnabled =>
        \A e \in {get(db)} : \A data \in Snapshots : \A j \in DOMAIN data.rooms :
            HasWith(e.rooms, "external_id", data.rooms[j].external_id) =>
                \A room \in {MatchedRoom(e, data.rooms[j])} :
                    /\ \A l \in DOMAIN data.rooms[j].day_prices :
                           (/\ HasWith(room.day_prices, "day", data.rooms[j].day_prices[l].day)
                            /\ MatchedDay(room, data.rooms[j].day_prices[l]).price_changed
                                   = data.rooms[j].day_prices[l].price)
                               => ~MergeDay(room, data.rooms[j].day_prices[l]).changed
                    /\ SameAsProposed(room, data.rooms[j])
                           => ~ReservationRoom_update(room, data.rooms[j]).changed

\* a merge has reported no change for a snapshot whose room price and day price
\* are the proposed ones and differ from the accepted ones
C21_Witness ==
    /\ Merged
    /\ ~last.merge_changed
    /\ \E j \in DOMAIN last.arg.rooms : \E room \in {MatchedRoom(get(pre), last.arg.rooms[j])} :
           /\ room.price = last.arg.rooms[j].price
           /\ room.price_accepted # last.arg.rooms[j].price
           /\ \E l \in DOMAIN last.arg.rooms[j].day_prices :
                  \E day \in {MatchedDay(room, last.arg.rooms[j].day_prices[l])} :
                      /\ day.price_changed = last.arg.rooms[j].day_prices[l].price
                      /\ day.price_accepted # last.arg.rooms[j].day_prices[l].price

\* accept and save one after the other, in the two orders, from a database d
AcceptThenSave(d, reservation, price_ids, t) ==
    save(accept(d, price_ids, t), reservation, FALSE, t).db
SaveThenAccept(d, reservation, price_ids, t) ==
    accept(save(d, reservation, FALSE, t).db, price_ids, t)

RaceOver == calc.a = "done" /\ calc.s = "done"

\* the split of accept and of save composes to the whole of each
RaceStepsCompose ==
    MergeEnabled =>
        \A data \in Snapshots : \A e \in {Reservation_update(get(db), data).entity} :
            /\ accept(db, FormDayIds(db), now)
                   = IF db.res.is_verified THEN db
                     ELSE accept_room_rows(accept_reservation_row(db, now), FormDayIds(db), now)
            /\ e.status # "CANCEL" =>
                   save(db, e, FALSE, now).db
                       = update_reservation_rooms(update_reservation_row(db, e), e, now)

\* C22: when accept and save of a merged snapshot for the same reservation
\* have both finished, the stored rows are those of running the two one after
\* the other in one of the two orders
C22_AcceptAndSaveSerializable ==
    RaceOver =>
        \/ db = AcceptThenSave(calc.start, calc.reservation, calc.price_ids, RaceTime)
        \/ db = SaveThenAccept(calc.start, calc.reservation, calc.price_ids, RaceTime)

\* C22: a reservation never ends Verified with the accepted price of the old
\* snapshot on the reservation and that of the new snapshot on its rooms
C22_NoMixedAcceptedValues ==
    (RaceOver /\ db.res.is_verified) =>
        \/ db.res.price_accepted = calc.start.res.price
               /\ \A i \in DOMAIN calc.start.rooms \cap ActiveRoomIds(db) :
                      db.rooms[i].price_accepted = calc.start.rooms[i].price
        \/ db.res.price_accepted = calc.reservation.price
               /\ \A i \in ActiveRoomIds(db) : \A j \in DOMAIN calc.reservation.rooms :
                      db.rooms[i].external_id = calc.reservation.rooms[j].external_id
                          => db.rooms[i].price_accepted = calc.reservation.rooms[j].price

\* every proposed value of the database d is also its accepted value: the
\* prices of the reservation, the channel rate and the prices of every active
\* room, the price of every day of an active room
AllCommitted(d) ==
    /\ d.res.price_accepted = d.res.price
    /\ d.res.netto_price_accepted = d.res.netto_price
    /\ \A i \in ActiveRoomIds(d) :
           /\ d.rooms[i].channel_rate_id = d.rooms[i].channel_rate_id_changed
           /\ d.rooms[i].price_accepted = d.rooms[i].price
           /\ d.rooms[i].netto_price_accepted = d.rooms[i].netto_price
    /\ \A x \in d.days :
           x.reservation_room_id \in ActiveRoomIds(d) => x.price_accepted = x.price_changed

\* C23: after the save of a merged snapshot into a verified reservation, an
\* accept with every day ticked commits every proposed value, so no proposed
\* value is left that no accept can commit
C23_ProposedChangeCanBeCommitted ==
    (/\ Merged
     /\ pre.res.is_verified
     /\ AcceptReservationChanges_check_reservation(get(db)) = "ok") =>
        AllCommitted(AcceptReservationChanges_accept_changes(db, get(db), FormDayIds(db), now + 1))

\* the flags of merging the snapshot data into the reservation reloaded from
\* the database d and saving the result
Remerge(d, data, t) ==
    LET m == Reservation_update(get(d), data)
    IN  [merge_changed |-> m.changed, save_changed |-> save(d, m.entity, FALSE, t).changed]

\* the database after the last operation, and after an accept that follows it
AcceptedOrNot ==
    {db, AcceptReservationChanges_accept_changes(db, get(db), FormDayIds(db), now + 1)}

\* C24: after a snapshot has been merged and saved, merging the same snapshot
\* into the reloaded reservation and saving again reports changed = false from
\* the merge and from the save, with or without an accept in between
C24_RemergeReportsNoChange ==
    Merged =>
        \A d \in AcceptedOrNot : \A r \in {Remerge(d, last.arg, now + 1)} :
            ~r.merge_changed /\ ~r.save_changed

\* the part of C24 about the merge, for a snapshot that drops no room
C24_RemergeOfAllRooms ==
    (Merged /\ Len(last.arg.rooms) = 2) =>
        \A d \in AcceptedOrNot : ~Remerge(d, last.arg, now + 1).merge_changed

\* the last operation reloaded the reservation and saved it back without a
\* snapshot
SavedBack == last.op \in {"move", "prices", "reclose"}

\* C25: a move, an update of prices or an update of a room close leaves the
\* proposed channel rate (channel_rate_id_changed) of every room as it was, so
\* a rate proposed by an earlier snapshot is still the one an accept commits
C25_SaveBackKeepsProposedRate ==
    SavedBack =>
        \A i \in DOMAIN pre.rooms :
            db.rooms[i].channel_rate_id_changed = pre.rooms[i].channel_rate_id_changed

\* the part of C25 about a move
C25_MoveKeepsProposedRate ==
    last.op = "move" =>
        \A i \in DOMAIN pre.rooms :
            db.rooms[i].channel_rate_id_changed = pre.rooms[i].channel_rate_id_changed

\* the external ids of the soft-deleted room rows of d that have no active row
DroppedExts(d) ==
    {d.rooms[i].external_id : i \in DOMAIN d.rooms \ ActiveRoomIds(d)}
        \ {d.rooms[i].external_id : i \in ActiveRoomIds(d)}

\* an active room row of d carries the snapshot room: its stay, its prices and
\* a day row for each of its days with the proposed price of the snapshot
ActiveCarrying(d, room_data) ==
    \E i \in ActiveRoomIds(d) :
        /\ d.rooms[i].external_id = room_data.external_id
        /\ d.rooms[i].checkin = room_data.checkin
        /\ d.rooms[i].checkout = room_data.checkout
        /\ d.rooms[i].price = room_data.price
        /\ \A l \in DOMAIN room_data.day_prices :
               \E x \in d.days :
                   /\ x.reservation_room_id = i
                   /\ x.day = room_data.day_prices[l].day
                   /\ x.price_changed = room_data.day_prices[l].price

\* C26: when a snapshot that is not a cancellation holds a room whose external
\* id belongs to a soft-deleted room only, the save of the merge leaves an
\* active room with that external id, the snapshot's values and its days
C26_DroppedRoomComesBack ==
    (Merged /\ last.arg.status # "CANCEL") =>
        \A j \in DOMAIN last.arg.rooms :
            last.arg.rooms[j].external_id \in DroppedExts(pre)
                => ActiveCarrying(db, last.arg.rooms[j])

\* C27: a save that reports changed = true has modified a stored row; so the
\* save of the aggregate as it was reloaded, and the save of any snapshot merged
\* into it, report changed = false when they leave every row as it is
C27_ChangedOnlyIfModified ==
    Stored =>
        \A e \in {get(db)} :
            /\ \A r \in {save(db, e, FALSE, now + 1)} : r.changed => r.db # db
            /\ is_ota(e) =>
                   \A data \in Snapshots :
                       \A r \in {save(db, Reservation_update(e, data).entity, FALSE, now + 1)} :
                           r.changed => r.db # db

\* C28: UpdateRoomClose.execute on a reservation that is not a room close
\* fails with missed_reservation and leaves every stored row as it is
C28_OnlyRoomClosesAreUpdated ==
    (last.op = "reclose" /\ pre.res.status # "CLOSE") =>
        /\ last.result = "missed_reservation"
        /\ db = pre

\* two day rows of different active rooms of a reservation that is not
\* cancelled name the same physical room on the same day
DoubleAssigned(d) ==
    /\ d.res # NoRes
    /\ d.res.status # "CANCEL"
    /\ \E x, y \in d.days :
           /\ x.reservation_room_id # y.reservation_room_id
           /\ {x.reservation_room_id, y.reservation_room_id} \subseteq ActiveRoomIds(d)
           /\ x.day = y.day
           /\ x.room_id # Null
           /\ x.room_id = y.room_id

\* C29: after a create or an update of a room close, a move or an update of
\* prices, no physical room is assigned on one day to two active rooms
C29_NoDoubleAssignment ==
    last.op \in {"close", "reclose", "move", "prices"} => ~DoubleAssigned(db)

\* the part of C29 about a move into a room that another room occupies
C29_MoveChecksTheRoom ==
    (last.op = "move" /\ ~DoubleAssigned(pre)) => ~DoubleAssigned(db)

\* the run of the use case has returned; the quotation was locked when it began
OdooReturned == calc.step = "returned"
WasLocked == calc.before = "done"
\* the calls of the run that change the quotation, in their order
QuotationCalls ==
    SelectSeq(calc.ctx.calls,
              LAMBDA x : x \in {"unlock_quotation", "update_quotation_items", "confirm_quotation"})

\* C30, the order: a run on a locked quotation whose items need an update
\* calls unlock, update items and lock back in this order
C30_UnlockUpdateLockBack ==
    (OdooReturned /\ WasLocked /\ calc.ctx.is_need_update_quotation) =>
        \E n \in 0 .. 3 :
            QuotationCalls
                = SubSeq(<<"unlock_quotation", "update_quotation_items", "confirm_quotation">>, 1, n)

\* C30, the quotation that was not locked: neither unlock nor lock back is called
C30_UnlockedIsLeftAlone ==
    ~WasLocked =>
        /\ calc.quotation = "sale"
        /\ \A i \in DOMAIN calc.ctx.calls :
               calc.ctx.calls[i] \notin {"unlock_quotation", "confirm_quotation"}

\* C30, the return: whenever the run returns, with success or with a failure,
\* a quotation that was locked before it is locked
C30_LockedAgainOnReturn ==
    (OdooReturned /\ WasLocked) => calc.quotation = "done"

\* C30: the use case preserves the lock state of the quotation
C30_LockStatePreserved ==
    /\ C30_UnlockUpdateLockBack
    /\ C30_UnlockedIsLeftAlone
    /\ C30_LockedAgainOnReturn
====
